---- MODULE Spec2Model ----
(***************************************************************************)
(* Model of the ebook engines of SumatraPDF (EbookEngine and its           *)
(* subclasses): the page store built at load time, the anchor tables,      *)
(* named-destination lookup, link resolution, text extraction, rendering   *)
(* with cooperative abort, and the pagesAccess lock.                       *)
(*                                                                         *)
(* Strings are sequences of one-character strings.  A WCHAR string is a    *)
(* sequence of characters, a UTF-8 string a sequence of bytes; the only    *)
(* non-ASCII character of the model is "U+E9", encoded as the two bytes    *)
(* "C3" "A9".  A DrawInstr* pointer is the position <<page, index>> of the *)
(* instruction in the page store; the null pointer is <<0, 0>>.            *)
(***************************************************************************)
EXTENDS Integers, Sequences, FiniteSets, TLC

(***************************************************************************)
(* Bounds of the model.                                                    *)
(***************************************************************************)
\* sub-documents the collector merges at most
MaxDocs == 2
\* tokens of one sub-document's HTML at most
MaxContent == 2
\* tokens of the merged HTML at most, the pagebreak tokens included
MaxHtml == 5
\* text lines that fit on one page (pageDy in line heights)
PageLines == 1
\* width of the page rect and of the border, in model units
PageRectDx == 6
PageBorder == 1
\* the longest annotation list a caller builds
MaxAnnots == 2
\* the modifications file is saved to while it has at most this many blocks
MaxBlocks == 5

\* height of the rect of a ScrollTo destination
DestRectDy == 10

(***************************************************************************)
(* Strings (src/src/utils/StrUtil.h).                                      *)
(***************************************************************************)
SeqsUpTo(S, n) == UNION {[1..k -> S] : k \in 0..n}

\* the null char* (distinct from the empty string)
NullStr == <<"NUL">>

\* str::conv::ToUtf8 of one character
Utf8OfChar(c) == IF c = "U+E9" THEN <<"C3", "A9">> ELSE <<c>>

RECURSIVE ToUtf8(_)
ToUtf8(w) == IF w = <<>> THEN <<>> ELSE Utf8OfChar(Head(w)) \o ToUtf8(Tail(w))

\* tolower of one byte: only ASCII letters fold
ToLower(b) ==
    CASE b = "A" -> "a"
      [] b = "B" -> "b"
      [] b = "H" -> "h"
      [] b = "M" -> "m"
      [] b = "T" -> "t"
      [] b = "X" -> "x"
      [] b = "Z" -> "z"
      [] OTHER -> b

\* str::EqNI: the first len bytes agree ignoring case
EqNI(s1, s2, len) ==
    /\ Len(s1) >= len
    /\ Len(s2) >= len
    /\ \A i \in 1..len : ToLower(s1[i]) = ToLower(s2[i])

\* str::FindChar: 1-based index of the first c in s, 0 when there is none
FindChar(s, c) ==
    IF \E i \in 1..Len(s) : s[i] = c
    THEN CHOOSE i \in 1..Len(s) : s[i] = c /\ \A j \in 1..(i - 1) : s[j] # c
    ELSE 0

(***************************************************************************)
(* State.                                                                  *)
(***************************************************************************)
VARIABLES
    \* an engine, from its construction to the lookups on the loaded document
    engine,       \* which *EngineImpl class the object is
    objects,      \* the paths doc->HasData is true for (a CHM document)
    phase,        \* "collect", "format", "loaded" or "failed"
    created,      \* what CreateFromFile or CreateFromStream returned
    added,        \* ChmHtmlCollector::added
    html,         \* ChmHtmlCollector::html, the merged token stream
    pos,          \* the formatter's position in html
    pages,        \* EbookEngine::pages (while formatting: the sealed pages)
    currPage,     \* HtmlFormatter::currPage, its instructions
    currY,        \* HtmlFormatter::currY, in line heights
    currX,        \* HtmlFormatter::currX, in model units
    reparse,      \* HtmlPage::reparseIdx of the pages, while formatting also of currPage
    pagePath,     \* ChmFormatter::pagePath
    anchors,      \* EbookEngine::anchors
    baseAnchors,  \* EbookEngine::baseAnchors
    query,        \* the name of the last named-destination lookup
    dest,         \* what that lookup returned
    els,          \* what the last GetElements call returned
    \* one call of ExtractPageText
    tpage,        \* the instructions of the page
    lineSep,      \* the line separator passed in
    text,         \* what the call returned: content and coords
    \* the threads calling into the loaded engine
    pc,           \* where each thread is in its call
    frame,        \* the arguments, locals and result of the call
    lock,         \* the thread that owns pagesAccess
    abort,        \* EbookAbortCookie::abort of the render of each thread
    userAnnots,   \* EbookEngine::userAnnots
    \* the modifications file of a document and the list it is saved from
    smx,          \* the content of <filePath>.smx, when the file exists
    annotList,    \* the annotation list of the caller (a Vec<PageAnnotation>*)
    fresh,        \* annotList is what LoadFileModifications returned, unchanged
    saved,        \* the last call of SaveFileModifictions and what it did
    \* an engine and its clone
    self,         \* which engine object the variables above describe
    orig,         \* the engine Clone was called on, once it was called
    freed,        \* the page lists that were deleted
    \* the application around the engines
    rangeCall,    \* a call of ParsePageRanges: its input and what it returned
    collector,    \* a CHM document and where ChmHtmlCollector::GetHtml is in it
    gotoCall,     \* a call of LinkHandler::GotoNamedDest and what it did
    tocBuilder,   \* an EbookTocBuilder and the tree it has built
    chmFile,      \* the objects of a CHM file and the last lookup in it
    installer     \* InstallerThread: its position, its flags and its posts

loadVars == <<engine, objects, phase, created, added, html, pos, pages, currPage, currY, currX,
              reparse,
              pagePath,
              anchors, baseAnchors>>
engineVars == <<loadVars, query, dest, els>>
textVars == <<tpage, lineSep, text>>
renderVars == <<pc, frame, lock, abort, userAnnots>>
fileVars == <<smx, annotList, fresh, saved>>
cloneVars == <<self, orig, freed>>
appVars == <<rangeCall, collector, gotoCall, tocBuilder, chmFile, installer>>
\* the variables an action on the engine leaves alone
others == <<textVars, renderVars, fileVars, cloneVars, appVars>>
vars == <<engineVars, textVars, renderVars, fileVars, cloneVars, appVars>>

(***************************************************************************)
(* Tokens of the merged HTML and draw instructions.                        *)
(***************************************************************************)
\* <pagebreak page_path="path" page_marker />, as ChmHtmlCollector::Visit writes it
PagebreakTok(path) == [tag |-> "pagebreak", val |-> path, marker |-> TRUE, w |-> 0]
\* a <pagebreak> without attributes
PlainPagebreakTok == [tag |-> "pagebreak", val |-> NullStr, marker |-> FALSE, w |-> 0]
\* <a id="id">
AnchorTok(id) == [tag |-> "a", val |-> id, marker |-> FALSE, w |-> 0]
\* <a id="..." page_marker />: the id is followed by " page_marker />
MarkerAnchorTok(id) == [tag |-> "a", val |-> id, marker |-> TRUE, w |-> 0]
\* <a href="href">text of width w</a>
LinkTok(href, w) == [tag |-> "link", val |-> href, marker |-> FALSE, w |-> w]
\* <img src="src"> of width w
ImgTok(src, w) == [tag |-> "img", val |-> src, marker |-> FALSE, w |-> w]
\* a word of a text token: its bytes and the width the text measurement
\* gives it
RunTok(str, w) == [tag |-> "run", val |-> str, marker |-> FALSE, w |-> w]
\* the whitespace between two words
SpaceTok == [tag |-> "space", val |-> <<" ">>, marker |-> FALSE, w |-> 1]
\* a text run one line high
TextTok == [tag |-> "text", val |-> <<"t">>, marker |-> FALSE, w |-> 1]

\* DrawInstr: marker tells whether the bytes after str in the source are
\* " page_marker />
DrawInstr(type, str, x, y, dx, dy, marker) ==
    [type |-> type, str |-> str, x |-> x, y |-> y, dx |-> dx, dy |-> dy,
     marker |-> marker]

NullInstr == <<0, 0>>

\* the width the formatter lays pages out in
pageDx == PageRectDx - 2 * PageBorder

(***************************************************************************)
(* ChmHtmlCollector (part_000:1375-1426).                                  *)
(***************************************************************************)
\* url::IsAbsolute: the url has a scheme
IsAbsolute(url) ==
    LET colon == FindChar(url, ":")
        hash == FindChar(url, "#")
    IN  colon > 1 /\ (hash = 0 \/ hash > colon)

\* url::GetFullPath: the url without its fragment
GetFullPath(url) ==
    LET hash == FindChar(url, "#")
    IN  IF hash = 0 THEN url ELSE SubSeq(url, 1, hash - 1)

\* WStrList::FindI: index of the first entry equal to s ignoring case, 0 if none
FindI(list, s) ==
    LET hit(i) == Len(list[i]) = Len(s) /\ EqNI(list[i], s, Len(s))
    IN  IF \E i \in 1..Len(list) : hit(i)
        THEN CHOOSE i \in 1..Len(list) : hit(i) /\ \A j \in 1..(i - 1) : ~hit(j)
        ELSE 0

\* ChmHtmlCollector::Visit(name, url, level); hasData tells whether
\* doc->GetData returns data for the url's path, which it can only for an
\* object of the document; data is that HTML, tokenised
\* a visit that does not look the url up in added
VisitUrlAgain(url, hasData, data) ==
    IF url = NullStr \/ IsAbsolute(url)
    THEN UNCHANGED <<added, html>>
    ELSE LET plainUrl == GetFullPath(url) IN
         IF ~hasData
         THEN UNCHANGED <<added, html>>
         ELSE /\ html' = html \o <<PagebreakTok(ToUtf8(plainUrl))>> \o data
              /\ added' = Append(added, plainUrl)

\* the body of ChmHtmlCollector::Visit
VisitUrl(url, hasData, data) ==
    IF url = NullStr \/ IsAbsolute(url)
    THEN UNCHANGED <<added, html>>
    ELSE LET plainUrl == GetFullPath(url) IN
         IF FindI(added, plainUrl) # 0 \/ ~hasData
         THEN UNCHANGED <<added, html>>
         ELSE /\ html' = html \o <<PagebreakTok(ToUtf8(plainUrl))>> \o data
              /\ added' = Append(added, plainUrl)

\* a visit of the collector with any url, of a document of bounded size
Visit(url, hasData, data) ==
    /\ engine = "chm"
    /\ phase = "collect"
    /\ hasData => url # NullStr /\ ToUtf8(GetFullPath(url)) \in objects
    /\ Len(added) < MaxDocs
    /\ Len(html) + 1 + Len(data) <= MaxHtml
    /\ VisitUrl(url, hasData, data)
    /\ UNCHANGED <<engine, objects, created, phase, pos, pages, currPage, currY, currX, reparse, pagePath,
                   anchors, baseAnchors, query, dest, els, others>>

\* ChmHtmlCollector::GetHtml returns and ChmEngineImpl::Load starts the
\* formatter on the merged HTML
GetHtml ==
    /\ engine = "chm"
    /\ phase = "collect"
    /\ phase' = "format"
    /\ UNCHANGED <<engine, objects, created, added, html, pos, pages, currPage, currY, currX, reparse, pagePath,
                   anchors, baseAnchors, query, dest, els, others>>

(***************************************************************************)
(* The formatter.  HandleTagPagebreak is ChmFormatter's; the base class    *)
(* HtmlFormatter is described by the specification only.                   *)
(***************************************************************************)
CurrTok == html[pos]

\* HtmlFormatter::ForceNewPage: seal the current page, begin an empty one
SealedPages == Append(pages, currPage)

\* currPage = new HtmlPage(currReparseIdx): the new page begins at the
\* token the formatter is at
SealedReparse == Append(reparse, pos - 1)

\* a new page at every pagebreak
ForcesNewPageAlways(attr, path) == TRUE

\* if (!attr || pagePath) ForceNewPage()
ForcesNewPage(attr, path) == ~attr \/ path # NullStr

\* ChmFormatter::HandleTagPagebreak
HandleTagPagebreak ==
    /\ phase = "format"
    /\ pos <= Len(html)
    /\ CurrTok.tag = "pagebreak"
    /\ LET attr == CurrTok.val # NullStr
           forced == ForcesNewPage(attr, pagePath)
           y == IF forced THEN 0 ELSE currY
           page == IF forced THEN <<>> ELSE currPage
       IN  /\ pages' = IF forced THEN SealedPages ELSE pages
           /\ reparse' = IF forced THEN SealedReparse ELSE reparse
           /\ currY' = y
           /\ currX' = IF forced THEN 0 ELSE currX
           /\ IF attr
              THEN /\ currPage' = Append(page, DrawInstr("Anchor", CurrTok.val,
                                          0, y, pageDx, 0, CurrTok.marker))
                   /\ pagePath' = CurrTok.val
              ELSE /\ currPage' = page
                   /\ UNCHANGED pagePath
    /\ pos' = pos + 1
    /\ UNCHANGED <<engine, objects, created, phase, added, html, anchors, baseAnchors, query, dest, els, others>>

\* an <a id=...> tag: an Anchor instruction at the cursor, with an empty bbox
HandleAnchorAttr ==
    /\ phase = "format"
    /\ pos <= Len(html)
    /\ CurrTok.tag = "a"
    /\ currPage' = Append(currPage, DrawInstr("Anchor", CurrTok.val,
                                              0, currY, 0, 0, CurrTok.marker))
    /\ pos' = pos + 1
    /\ UNCHANGED <<engine, objects, created, phase, added, html, pages, currY, currX, reparse, pagePath,
                   anchors, baseAnchors, query, dest, els, others>>

\* a text run: it takes one line; a full page is sealed before it is emitted
HandleText ==
    /\ phase = "format"
    /\ pos <= Len(html)
    /\ CurrTok.tag = "text"
    /\ LET full == currY >= PageLines
           y == IF full THEN 0 ELSE currY
           page == IF full THEN <<>> ELSE currPage
       IN  /\ pages' = IF full THEN SealedPages ELSE pages
           /\ reparse' = IF full THEN SealedReparse ELSE reparse
           /\ currPage' = Append(page, DrawInstr("String", CurrTok.val,
                                                 0, y, CurrTok.w, 1, FALSE))
           /\ currY' = y + 1
           /\ currX' = 0
    /\ pos' = pos + 1
    /\ UNCHANGED <<engine, objects, created, phase, added, html, pagePath,
                   anchors, baseAnchors, query, dest, els, others>>

\* an <img> element: an Image instruction one line high on a line of its own
HandleTagImg ==
    /\ phase = "format"
    /\ pos <= Len(html)
    /\ CurrTok.tag = "img"
    /\ LET full == currY >= PageLines
           y == IF full THEN 0 ELSE currY
           page == IF full THEN <<>> ELSE currPage
       IN  /\ pages' = IF full THEN SealedPages ELSE pages
           /\ reparse' = IF full THEN SealedReparse ELSE reparse
           /\ currPage' = Append(page, DrawInstr("Image", CurrTok.val,
                                                 0, y, CurrTok.w, 1, FALSE))
           /\ currY' = y + 1
           /\ currX' = 0
    /\ pos' = pos + 1
    /\ UNCHANGED <<engine, objects, created, phase, added, html, pagePath,
                   anchors, baseAnchors, query, dest, els, others>>

\* an <a href=...> element: LinkStart and LinkEnd around its text; the bbox of
\* LinkStart covers the text
HandleTagA ==
    /\ phase = "format"
    /\ pos <= Len(html)
    /\ CurrTok.tag = "link"
    /\ LET dy == IF CurrTok.w > 0 THEN 1 ELSE 0
       IN  currPage' = currPage \o
               <<DrawInstr("LinkStart", CurrTok.val, 0, currY, CurrTok.w, dy, FALSE),
                 DrawInstr("LinkEnd", <<>>, 0, currY, 0, 0, FALSE)>>
    /\ pos' = pos + 1
    /\ UNCHANGED <<engine, objects, created, phase, added, html, pages, currY, currX, reparse, pagePath,
                   anchors, baseAnchors, query, dest, els, others>>

\* is a run that is wider than the whole line left out
DropsTooWide(w) == w > pageDx
Drops(w) == FALSE

\* a word of width w: it goes on the current line when it fits in what is
\* left of the line; when it does not, the line is broken before it; a word
\* wider than the whole line is emitted at the start of a line all the
\* same.  A line that does not fit on the page seals the page.
EmitTextRun ==
    /\ phase = "format"
    /\ pos <= Len(html)
    /\ CurrTok.tag = "run"
    /\ LET w == CurrTok.w
           fits == w <= pageDx - currX
           break == ~fits /\ currX > 0
           x == IF break THEN 0 ELSE currX
           line == IF break THEN currY + 1 ELSE currY
           full == line >= PageLines
           y == IF full THEN 0 ELSE line
           page == IF full THEN <<>> ELSE currPage
       IN  IF Drops(w)
           THEN UNCHANGED <<pages, currPage, currX, currY, reparse>>
           ELSE /\ pages' = IF full THEN SealedPages ELSE pages
                /\ reparse' = IF full THEN SealedReparse ELSE reparse
                /\ currPage' = Append(page, DrawInstr("String", CurrTok.val,
                                                      x, y, w, 1, FALSE))
                /\ currX' = x + w
                /\ currY' = y
    /\ pos' = pos + 1
    /\ UNCHANGED <<engine, objects, created, phase, added, html, pagePath,
                   anchors, baseAnchors, query, dest, els, others>>

\* does a space of width w fit on the line after the cursor x
SpaceFitsAlways(x, w) == TRUE
SpaceFits(x, w) == x + w <= pageDx

\* the whitespace between two words: an ElasticSpace instruction after a
\* word when it fits on the line, a line break when it does not, nothing at
\* the start of a line
EmitElasticSpace ==
    /\ phase = "format"
    /\ pos <= Len(html)
    /\ CurrTok.tag = "space"
    /\ IF currX = 0
       THEN UNCHANGED <<currPage, currX, currY>>
       ELSE IF SpaceFits(currX, CurrTok.w)
       THEN /\ currPage' = Append(currPage, DrawInstr("ElasticSpace", <<>>,
                                                      currX, currY, CurrTok.w, 1, FALSE))
            /\ currX' = currX + CurrTok.w
            /\ UNCHANGED currY
       ELSE /\ currX' = 0
            /\ currY' = currY + 1
            /\ UNCHANGED currPage
    /\ pos' = pos + 1
    /\ UNCHANGED <<engine, objects, created, phase, added, html, reparse, pages, pagePath,
                   anchors, baseAnchors, query, dest, els, others>>

\* HtmlFormatter::FormatAllPages(skipEmptyPages), at the end of the token
\* stream: the last page is sealed; an empty stream gives no page at all, and
\* pages without instructions are left out when skipEmptyPages is set
FormatAllPages(skipEmptyPages) ==
    IF Len(html) = 0 THEN <<>>
    ELSE IF skipEmptyPages THEN SelectSeq(SealedPages, LAMBDA page : page # <<>>)
    ELSE SealedPages

\* the reparseIdx of the pages FormatAllPages returns
RECURSIVE KeptReparse(_, _)
KeptReparse(j, skipEmptyPages) ==
    IF j > Len(SealedPages) THEN <<>>
    ELSE (IF skipEmptyPages /\ SealedPages[j] = <<>> THEN <<>> ELSE <<reparse[j]>>)
             \o KeptReparse(j + 1, skipEmptyPages)

\* the argument the Load of each engine passes: MobiEngineImpl and
\* PdbEngineImpl call FormatAllPages(), whose default is to skip, the others
\* FormatAllPages(false)
SkipEmptyPages == engine \in {"mobi", "pdb"}

(***************************************************************************)
(* EbookEngine::ExtractPageAnchors (part_000:261-283).                     *)
(***************************************************************************)
PageAnchor(instr, pageNo) == [instr |-> instr, pageNo |-> pageNo]

\* the source goes on with " page_marker />, wherever the anchor is
IsBaseAnchorAnywhere(i, k) == i.marker

\* line 275: the anchor is one of the first two instructions of its page and
\* the source goes on with " page_marker />   (k counts from 1 here)
IsBaseAnchor(i, k) == k - 1 < 2 /\ i.marker

\* the inner loop over the instructions of page pageNo, from index k on
RECURSIVE ScanPageInstrs(_, _, _, _)
ScanPageInstrs(pageInstrs, pageNo, k, acc) ==
    IF k > Len(pageInstrs) THEN acc
    ELSE LET i == pageInstrs[k] IN
         IF i.type # "Anchor"
         THEN ScanPageInstrs(pageInstrs, pageNo, k + 1, acc)
         ELSE ScanPageInstrs(pageInstrs, pageNo, k + 1,
                [acc EXCEPT !.anchors = Append(@, PageAnchor(<<pageNo, k>>, pageNo)),
                            !.baseAnchor = IF IsBaseAnchor(i, k)
                                           THEN <<pageNo, k>> ELSE @])

\* the outer loop over the pages, from page pageNo on
RECURSIVE ExtractFrom(_, _, _)
ExtractFrom(pgs, pageNo, acc) ==
    IF pageNo > Len(pgs) THEN acc
    ELSE LET a == ScanPageInstrs(pgs[pageNo], pageNo, 1, acc)
         IN  ExtractFrom(pgs, pageNo + 1,
                         [a EXCEPT !.baseAnchors = Append(@, a.baseAnchor)])

ExtractPageAnchors(pgs) ==
    ExtractFrom(pgs, 1, [anchors |-> <<>>, baseAnchors |-> <<>>,
                         baseAnchor |-> NullInstr])

\* the Load of the engines other than CHM: the document is one HTML text
\* (TxtDoc and PalmDoc convert their text into HTML), handed to the formatter
LoadDoc(data) ==
    /\ engine # "chm"
    /\ phase = "collect"
    /\ html' = data
    /\ phase' = "format"
    /\ UNCHANGED <<engine, objects, created, added, pos, pages, currPage, currY, currX, reparse, pagePath,
                   anchors, baseAnchors, query, dest, els, others>>

\* mutant: Load reports success whatever the formatter produced
LoadResultAlways(pgs) == TRUE

\* return pages->size() > 0
LoadResult(pgs) == Len(pgs) > 0

\* the end of the Load of an engine: the pages, the anchor tables, and
\* what Load returns
FinishLoading ==
    /\ phase = "format"
    /\ pos > Len(html)
    /\ LET pgs == FormatAllPages(SkipEmptyPages)
           tabs == ExtractPageAnchors(pgs)
       IN  /\ pages' = pgs
           /\ reparse' = IF Len(html) = 0 THEN <<>> ELSE KeptReparse(1, SkipEmptyPages)
           /\ anchors' = tabs.anchors
           /\ baseAnchors' = tabs.baseAnchors
           /\ phase' = IF LoadResult(pgs) THEN "loaded" ELSE "failed"
    /\ currPage' = <<>>
    /\ UNCHANGED <<engine, objects, created, added, html, pos, currY, currX, pagePath, query, dest, els, others>>

\* the Load of an engine whose document cannot be opened (doc is null; for
\* MobiEngineImpl also a document that is not Mobipocket; for EpubEngineImpl
\* also a directory that cannot be read as a ZIP stream): return false
DocMissing ==
    /\ phase = "collect"
    /\ html = <<>>
    /\ phase' = "failed"
    /\ UNCHANGED <<engine, objects, created, added, html, pos, pages, currPage, currY, currX, reparse,
                   pagePath, anchors, baseAnchors, query, dest, els, others>>

\* CreateFromFile / CreateFromStream: the engine when Load returned true,
\* nullptr (and the engine is deleted) when it returned false
CreateReturn ==
    /\ phase \in {"loaded", "failed"}
    /\ created = "pending"
    /\ created' = IF phase = "loaded" THEN "engine" ELSE "nullptr"
    /\ UNCHANGED <<engine, objects, phase, added, html, pos, pages, currPage, currY, currX, reparse,
                   pagePath, anchors, baseAnchors, query, dest, els, others>>

(***************************************************************************)
(* EbookEngine::GetNamedDest (part_000:556-604).                           *)
(***************************************************************************)
InstrAt(pgs, ptr) == pgs[ptr[1]][ptr[2]]

\* what a lookup returns: nullptr, or a SimpleDest2 without a value
NotFound == [kind |-> "NotFound", pageNo |-> 0, x |-> 0, y |-> 0, dx |-> 0, dy |-> 0]

\* new SimpleDest2(pageNo, rect) for RectD(0, y, pageRect.dx, 10) with
\* rect.Inflate(-pageBorder, 0)
SimpleDest2(pageNo, y) ==
    [kind |-> "ScrollTo", pageNo |-> pageNo, x |-> PageBorder, y |-> y,
     dx |-> PageRectDx - 2 * PageBorder, dy |-> DestRectDy]

\* lines 570-577: the first page whose base anchor has the path
\* name[0..base_len), 0 when there is none
FindBasePage(name_utf8, base_len) ==
    LET hit(i) == /\ baseAnchors[i] # NullInstr
                  /\ base_len = Len(InstrAt(pages, baseAnchors[i]).str)
                  /\ EqNI(name_utf8, InstrAt(pages, baseAnchors[i]).str, base_len)
    IN  IF \E i \in 1..Len(baseAnchors) : hit(i)
        THEN CHOOSE i \in 1..Len(baseAnchors) : hit(i) /\ \A j \in 1..(i - 1) : ~hit(j)
        ELSE 0

\* mutant: the ids are compared byte for byte (str::EqN for str::EqNI)
IdMatchesExactCase(id, anchor) == id = InstrAt(pages, anchor.instr).str

\* line 589: the anchor's id is id, ignoring case
IdMatches(id, anchor) ==
    /\ Len(id) = Len(InstrAt(pages, anchor.instr).str)
    /\ EqNI(id, InstrAt(pages, anchor.instr).str, Len(id))

\* mutant: the loop does not skip to the base anchor first
RECURSIVE ScanAnchorsNoSkip(_, _, _)
ScanAnchorsNoSkip(i, baseAnchor, id) ==
    IF i > Len(anchors) THEN 0
    ELSE IF IdMatches(id, anchors[i]) THEN i
         ELSE ScanAnchorsNoSkip(i + 1, baseAnchor, id)

\* mutant: after the skip the loop ends at the base anchor of the next
\* sub-document
RECURSIVE ScanAnchorsToNextBase(_, _, _)
ScanAnchorsToNextBase(i, baseAnchor, id) ==
    IF i > Len(anchors) THEN 0
    ELSE IF baseAnchor # NullInstr
         THEN ScanAnchorsToNextBase(i + 1,
                          IF anchors[i].instr = baseAnchor THEN NullInstr ELSE baseAnchor,
                          id)
         ELSE IF \E p \in 1..Len(baseAnchors) : baseAnchors[p] = anchors[i].instr
              THEN 0
              ELSE IF IdMatches(id, anchors[i]) THEN i
                   ELSE ScanAnchorsToNextBase(i + 1, NullInstr, id)

\* lines 581-594: index in anchors of the anchor the loop returns on, 0 when
\* it runs to the end; baseAnchor is the anchor still to be skipped to
RECURSIVE ScanAnchors(_, _, _)
ScanAnchors(i, baseAnchor, id) ==
    IF i > Len(anchors) THEN 0
    ELSE IF baseAnchor # NullInstr
         THEN ScanAnchors(i + 1,
                          IF anchors[i].instr = baseAnchor THEN NullInstr ELSE baseAnchor,
                          id)
         ELSE IF IdMatches(id, anchors[i]) THEN i
              ELSE ScanAnchors(i + 1, NullInstr, id)

\* mutant: a missing id fails the lookup
NoIdMatchFails(basePageNo) == NotFound

\* lines 596-603: no anchor matched
NoIdMatch(basePageNo) ==
    IF basePageNo # 0 THEN SimpleDest2(basePageNo, PageBorder) ELSE NotFound

\* mutant: a base path that is not in the table fails the lookup
GetNamedDestStrictBase(name) ==
    LET name_utf8 == ToUtf8(name)
        hash == FindChar(name_utf8, "#")
        id == IF hash # 0 THEN SubSeq(name_utf8, hash + 1, Len(name_utf8))
              ELSE name_utf8
        withBase == hash > 1
        basePageNo == IF withBase THEN FindBasePage(name_utf8, hash - 1) ELSE 0
        baseAnchor == IF basePageNo # 0 THEN baseAnchors[basePageNo] ELSE NullInstr
        found == ScanAnchors(1, baseAnchor, id)
    IN  IF withBase /\ basePageNo = 0 THEN NotFound
        ELSE IF found # 0
             THEN SimpleDest2(anchors[found].pageNo,
                              InstrAt(pages, anchors[found].instr).y + PageBorder)
             ELSE NoIdMatch(basePageNo)

GetNamedDest(name) ==
    LET name_utf8 == ToUtf8(name)
        hash == FindChar(name_utf8, "#")
        id == IF hash # 0 THEN SubSeq(name_utf8, hash + 1, Len(name_utf8))
              ELSE name_utf8
        \* id > name_utf8.Get() + 1
        withBase == hash > 1
        basePageNo == IF withBase THEN FindBasePage(name_utf8, hash - 1) ELSE 0
        baseAnchor == IF basePageNo # 0 THEN baseAnchors[basePageNo] ELSE NullInstr
        found == ScanAnchors(1, baseAnchor, id)
    IN  IF found # 0
        THEN SimpleDest2(anchors[found].pageNo,
                         InstrAt(pages, anchors[found].instr).y + PageBorder)
        ELSE NoIdMatch(basePageNo)

\* no lookup was made yet
NoQuery == <<>>

\* a call of EbookEngine::GetNamedDest on the loaded engine
LookupNamedDest(name) ==
    /\ created = "engine"
    /\ query' = name
    /\ dest' = GetNamedDest(name)
    /\ UNCHANGED <<loadVars, els, others>>

(***************************************************************************)
(* EbookEngine::ExtractPageText (part_000:414-488).  Coordinates are       *)
(* integers; the double arithmetic of the source is exact on them:         *)
(* (int)(x + k * (1.0 * dx / len)) is x + (k * dx) \div len for the        *)
(* non-negative values of the model, and y > ly + dy * 0.8 is              *)
(* 5 * y > 5 * ly + 4 * dy.                                                *)
(***************************************************************************)
\* ExtractPageText was not called
NoResult == [called |-> FALSE, content |-> <<>>, coords |-> <<>>]

RectI(x, y, dx, dy) == [x |-> x, y |-> y, dx |-> dx, dy |-> dy]

\* RectI::BR().x
BRx(r) == r.x + r.dx

\* what Vec<RectI>::AppendBlanks appends
BlankRect == RectI(0, 0, 0, 0)

GetInstrBbox(i) == RectI(i.x + PageBorder, i.y + PageBorder, i.dx, i.dy)

\* str::conv::FromHtmlUtf8: the WCHARs of entity-encoded UTF-8 bytes
RECURSIVE FromHtmlUtf8(_)
FromHtmlUtf8(s) ==
    IF s = <<>> THEN <<>>
    ELSE IF Len(s) >= 2 /\ SubSeq(s, 1, 2) = <<"C3", "A9">>
         THEN <<"U+E9">> \o FromHtmlUtf8(SubSeq(s, 3, Len(s)))
    ELSE IF Len(s) >= 4 /\ SubSeq(s, 1, 4) = <<"&", "l", "t", ";">>
         THEN <<"<">> \o FromHtmlUtf8(SubSeq(s, 5, Len(s)))
    ELSE <<s[1]>> \o FromHtmlUtf8(Tail(s))

\* str::EndsWith
EndsWith(txt, end) ==
    /\ Len(end) <= Len(txt)
    /\ SubSeq(txt, Len(txt) - Len(end) + 1, Len(txt)) = end

\* content.Append(lineSep); coords.AppendBlanks(str::Len(lineSep))
AppendLineSep(acc, sep) ==
    [acc EXCEPT !.content = @ \o sep,
                !.coords = @ \o [k \in 1..Len(sep) |-> BlankRect]]

\* the raw bytes of the run, not what they decode to
StrLenRaw(i) == Len(i.str)

\* size_t len = str::Len(s), s the decoded text of the run
StrLen(i) == Len(FromHtmlUtf8(i.str))

\* the boxes laid out from the left edge whatever the direction of the run
CharBoxesFromLeft(bbox, len, rtl) ==
    [k \in 1..len |->
        RectI(bbox.x + ((k - 1) * bbox.dx) \div len, bbox.y, bbox.dx \div len, bbox.dy)]

\* the boxes of the characters of one run: the width of the run divided
\* evenly, from the right edge backward for a right-to-left run
CharBoxes(bbox, len, rtl) ==
    [k \in 1..len |->
        RectI(bbox.x + ((IF rtl THEN len - k ELSE k - 1) * bbox.dx) \div len,
              bbox.y, bbox.dx \div len, bbox.dy)]

\* a new line only when the run starts above or below the last box
NewLineByHeightOnly(bbox, last, rtl) == 5 * bbox.y > 5 * last.y + 4 * last.dy

\* bbox.x < coords.Last().BR().x || bbox.y > coords.Last().y + coords.Last().dy * 0.8
\* and, for a right-to-left run, bbox.BR().x > coords.Last().x || ...
NewLine(bbox, last, rtl) ==
    \/ IF rtl THEN BRx(bbox) > last.x ELSE bbox.x < BRx(last)
    \/ 5 * bbox.y > 5 * last.y + 4 * last.dy

\* int swidth = bbox.x - coords.Last().BR().x, and for a right-to-left run
\* coords.Last().x - bbox.BR().x
SpaceWidth(bbox, last, rtl) ==
    IF rtl THEN last.x - BRx(bbox) ELSE bbox.x - BRx(last)

\* a space whatever the gap
InsertsSpaceAnyGap(insertSpace, some, swidth) == insertSpace /\ some

\* else if (insertSpace && coords.size() > 0) ... if (swidth > 0)
InsertsSpace(insertSpace, some, swidth) == insertSpace /\ some /\ swidth > 0

\* case InstrString (rtl = FALSE) and case InstrRtlString (rtl = TRUE)
StepString(acc, i, sep, rtl) ==
    LET bbox == GetInstrBbox(i)
        some == Len(acc.coords) > 0
        last == acc.coords[Len(acc.coords)]
        newLine == some /\ NewLine(bbox, last, rtl)
        swidth == SpaceWidth(bbox, last, rtl)
        sp == IF newLine THEN AppendLineSep(acc, sep)
              ELSE IF InsertsSpace(acc.insertSpace, some, swidth)
              THEN [acc EXCEPT
                      !.content = Append(@, " "),
                      !.coords = Append(@,
                          RectI(IF rtl THEN BRx(bbox) ELSE bbox.x - swidth,
                                bbox.y, swidth, bbox.dy))]
              ELSE acc
    IN  [content |-> sp.content \o FromHtmlUtf8(i.str),
         coords |-> sp.coords \o CharBoxes(bbox, StrLen(i), rtl),
         insertSpace |-> FALSE]

\* the body of the loop over the instructions of the page
TextStep(acc, i, sep) ==
    CASE i.type = "String" -> StepString(acc, i, sep, FALSE)
      [] i.type = "RtlString" -> StepString(acc, i, sep, TRUE)
      [] i.type \in {"ElasticSpace", "FixedSpace"} ->
            [acc EXCEPT !.insertSpace = TRUE]
      [] OTHER -> acc

RECURSIVE TextLoop(_, _, _, _)
TextLoop(pageInstrs, k, acc, sep) ==
    IF k > Len(pageInstrs) THEN acc
    ELSE TextLoop(pageInstrs, k + 1, TextStep(acc, pageInstrs[k], sep), sep)

\* the text of the page and the box of each of its characters
ExtractPageText(pageInstrs, sep) ==
    LET acc == TextLoop(pageInstrs, 1,
                        [content |-> <<>>, coords |-> <<>>,
                         insertSpace |-> FALSE], sep)
        end == IF Len(acc.content) > 0 /\ ~EndsWith(acc.content, sep)
               THEN AppendLineSep(acc, sep) ELSE acc
    IN  [called |-> TRUE, content |-> end.content, coords |-> end.coords]

\* a call of ExtractPageText on the page, with coordsOut
ExtractText ==
    /\ ~text.called
    /\ text' = ExtractPageText(tpage, lineSep)
    /\ UNCHANGED <<engineVars, tpage, lineSep, renderVars, fileVars, cloneVars, appVars>>

(***************************************************************************)
(* Links and page elements: CreatePageLink of EbookEngine (part_000:       *)
(* 499-518), ChmEngineImpl (1500-1514) and HtmlEngineImpl (1613-1623),     *)
(* and EbookEngine::GetElements (520-536).                                 *)
(***************************************************************************)
\* str::conv::FromUtf8: the WCHARs of UTF-8 bytes
RECURSIVE FromUtf8(_)
FromUtf8(s) ==
    IF s = <<>> THEN <<>>
    ELSE IF Len(s) >= 2 /\ SubSeq(s, 1, 2) = <<"C3", "A9">>
         THEN <<"U+E9">> \o FromUtf8(SubSeq(s, 3, Len(s)))
    ELSE <<s[1]>> \o FromUtf8(Tail(s))

\* ResolveHtmlEntities: the bytes with the entities replaced
RECURSIVE ResolveHtmlEntities(_)
ResolveHtmlEntities(s) ==
    IF s = <<>> THEN <<>>
    ELSE IF Len(s) >= 4 /\ SubSeq(s, 1, 4) = <<"&", "l", "t", ";">>
         THEN <<"<">> \o ResolveHtmlEntities(SubSeq(s, 5, Len(s)))
    ELSE <<s[1]>> \o ResolveHtmlEntities(Tail(s))

\* NormalizeURL(url, base), for paths without directories: a url with a
\* scheme or a leading slash is kept, a fragment is appended to the path of
\* the base, any other url replaces the file name of the base
NormalizeURL(url, base) ==
    IF url # <<>> /\ (url[1] = "/" \/ FindChar(url, ":") # 0) THEN url
    ELSE IF url # <<>> /\ url[1] = "#" THEN GetFullPath(base) \o url
    ELSE url

\* the name HasData and GetData look up: a slash is put before a name that
\* has none, and of three leading slashes two are skipped
ChmName(fileName) ==
    IF fileName = <<>> \/ fileName[1] # "/" THEN <<"/">> \o fileName
    ELSE IF Len(fileName) >= 3 /\ SubSeq(fileName, 1, 3) = <<"/", "/", "/">>
         THEN SubSeq(fileName, 3, Len(fileName))
    ELSE fileName

\* chm_resolve_object(chmHandle, name, &info) == CHM_RESOLVE_SUCCESS; the
\* objects are listed without the slash their names begin with
chm_resolve_object(name) == name # <<>> /\ name[1] = "/" /\ Tail(name) \in objects

\* ChmDoc::HasData
HasData(fileName) ==
    IF fileName = NullStr THEN FALSE ELSE chm_resolve_object(ChmName(fileName))

\* str::TransChars(str, "\\", "/")
TransChars(s) == [i \in 1..Len(s) |-> IF s[i] = "\\" THEN "/" ELSE s[i]]

\* the name ChmDoc::GetData reads: when the name is not found and holds a
\* backslash, the name with slashes for backslashes
GetDataName(fileName) ==
    IF ~chm_resolve_object(ChmName(fileName)) /\ FindChar(ChmName(fileName), "\\") # 0
    THEN TransChars(ChmName(fileName))
    ELSE ChmName(fileName)

\* the largest object GetData returns: 128 MB
MaxDataLen == 134217728

\* GetData returned nullptr
NoData == [ok |-> FALSE, len |-> 0]

\* what GetData returns for an object of the file that was found
ReadObject(info) ==
    IF info.length > MaxDataLen THEN NoData
    ELSE IF ~info.retrieved THEN NoData
    ELSE [ok |-> TRUE, len |-> info.length]

\* ChmDoc::GetData(fileName, &len); infos gives length and readability of
\* the objects of the file
GetData(fileName, infos) ==
    IF ~chm_resolve_object(GetDataName(fileName)) THEN NoData
    ELSE ReadObject(infos[Tail(GetDataName(fileName))])

\* RectI::IsEmptyArea (the bbox of an instruction)
IsEmptyArea(i) == i.dx <= 0 \/ i.dy <= 0

\* the destinations of links that do not scroll
LaunchURL == [kind |-> "LaunchURL", pageNo |-> 0, x |-> 0, y |-> 0, dx |-> 0, dy |-> 0]
ChmEmbeddedDest == [kind |-> "LaunchEmbedded", pageNo |-> 0, x |-> 0, y |-> 0, dx |-> 0, dy |-> 0]
RemoteHtmlDest == [kind |-> "LaunchFile", pageNo |-> 0, x |-> 0, y |-> 0, dx |-> 0, dy |-> 0]

\* CreatePageLink returned nullptr
NoElement == [type |-> "None", instr |-> NullInstr, rect |-> BlankRect, pageNo |-> 0,
              dest |-> NotFound, url |-> NullStr]

\* new EbookLink(link, rect, dest, pageNo); url is what the destination
\* launches (the null string for a destination inside the document)
EbookLink(link, rect, d, pageNo, url) ==
    [type |-> "Link", instr |-> link, rect |-> rect, pageNo |-> pageNo,
     dest |-> d, url |-> url]

\* new ImageDataElement(pageNo, &i.img, bbox)
ImageDataElement(pageNo, img, bbox) ==
    [type |-> "Image", instr |-> img, rect |-> bbox, pageNo |-> pageNo,
     dest |-> NotFound, url |-> NullStr]

\* the name EbookEngine::CreatePageLink looks up for a link that is not
\* absolute
LinkTarget(link, pageNo) ==
    LET str == InstrAt(pages, link).str
        baseAnchor == baseAnchors[pageNo]
    IN  IF baseAnchor # NullInstr
        THEN FromUtf8(NormalizeURL(ResolveHtmlEntities(str),
                                   InstrAt(pages, baseAnchor).str))
        ELSE FromHtmlUtf8(str)

\* mutant: a link whose lookup fails is kept as an element
EbookCreatePageLinkKeepDead(link, rect, pageNo) ==
    LET url == FromHtmlUtf8(InstrAt(pages, link).str) IN
    IF IsAbsolute(url) THEN EbookLink(link, rect, LaunchURL, pageNo, url)
    ELSE EbookLink(link, rect, GetNamedDest(LinkTarget(link, pageNo)), pageNo, NullStr)

\* EbookEngine::CreatePageLink
EbookCreatePageLink(link, rect, pageNo) ==
    LET url == FromHtmlUtf8(InstrAt(pages, link).str) IN
    IF IsAbsolute(url) THEN EbookLink(link, rect, LaunchURL, pageNo, url)
    ELSE LET d == GetNamedDest(LinkTarget(link, pageNo)) IN
         IF d = NotFound THEN NoElement
         ELSE EbookLink(link, rect, d, pageNo, NullStr)

\* what the dereference of a null base anchor gives (line 1506): any outcome
CrashElement == [NoElement EXCEPT !.type = "Crash"]

\* ChmEngineImpl::CreatePageLink
ChmCreatePageLink(link, rect, pageNo) ==
    LET linkEl == EbookCreatePageLink(link, rect, pageNo)
        baseAnchor == baseAnchors[pageNo]
    IN  IF linkEl # NoElement THEN linkEl
        ELSE IF baseAnchor = NullInstr THEN CrashElement
        ELSE LET url == NormalizeURL(InstrAt(pages, link).str,
                                     InstrAt(pages, baseAnchor).str)
             IN  IF ~HasData(url) THEN NoElement
                 ELSE EbookLink(link, rect, ChmEmbeddedDest, pageNo, url)

\* HtmlEngineImpl::CreatePageLink
HtmlCreatePageLink(link, rect, pageNo) ==
    LET str == InstrAt(pages, link).str
        url == FromHtmlUtf8(str)
    IN  IF Len(str) = 0 THEN NoElement
        ELSE IF IsAbsolute(url) \/ url[1] = "#"
        THEN EbookCreatePageLink(link, rect, pageNo)
        ELSE EbookLink(link, rect, RemoteHtmlDest, pageNo, url)

\* the virtual call of CreatePageLink
CreatePageLink(link, rect, pageNo) ==
    CASE engine = "chm" -> ChmCreatePageLink(link, rect, pageNo)
      [] engine = "html" -> HtmlCreatePageLink(link, rect, pageNo)
      [] OTHER -> EbookCreatePageLink(link, rect, pageNo)

\* the loop of GetElements over the instructions of the page, from index k
RECURSIVE ElementsFrom(_, _)
ElementsFrom(pageNo, k) ==
    IF k > Len(pages[pageNo]) THEN <<>>
    ELSE LET i == pages[pageNo][k]
             el == IF i.type = "Image"
                   THEN ImageDataElement(pageNo, <<pageNo, k>>, GetInstrBbox(i))
                   ELSE IF i.type = "LinkStart" /\ ~IsEmptyArea(i)
                   THEN CreatePageLink(<<pageNo, k>>, GetInstrBbox(i), pageNo)
                   ELSE NoElement
         IN  (IF el = NoElement THEN <<>> ELSE <<el>>) \o ElementsFrom(pageNo, k + 1)

\* EbookEngine::GetElements
GetElements(pageNo) == ElementsFrom(pageNo, 1)

\* GetElements was not called
NoElements == [pageNo |-> 0, list |-> <<>>]

\* a call of GetElements on the loaded engine
GetPageElements(pageNo) ==
    /\ created = "engine"
    /\ pageNo \in 1..Len(pages)
    /\ els' = [pageNo |-> pageNo, list |-> GetElements(pageNo)]
    /\ UNCHANGED <<loadVars, query, dest, others>>

(***************************************************************************)
(* Calls on a loaded engine from several threads: RenderBitmap (part_000:  *)
(* 359-406) with its abort cookie (58-63), ExtractPageText,                *)
(* UpdateUserAnnotations (490-497), GetElements (520-536),                 *)
(* GetElementAtPos (538-554), GetNamedDest (556-604) and                   *)
(* MobiEngineImpl::GetNamedDest (1031-1066), and the critical section      *)
(* pagesAccess they take through ScopedCritSec (ScopedWin.h).  A step of   *)
(* a thread is what it does between two points where another thread can   *)
(* be seen to act.  The abort flag is a plain bool: a read that misses a   *)
(* concurrent write is the interleaving in which Abort comes after it.     *)
(***************************************************************************)
\* the threads that call into the engine: one that renders pages and one
\* that makes every other call
Renderers == {"render"}
Callers == {"ui"}
Threads == Renderers \cup Callers

\* pagesAccess is owned by no thread
NoThread == "none"

\* the value a call returns
Returned(kind, val) == [kind |-> kind, val |-> val]

\* no call has returned
Nothing == Returned("none", <<>>)

\* the frame of a thread that is in no call
IdleFrame(op, result) ==
    [op |-> op, arg |-> <<>>, cookie |-> FALSE, drawn |-> 0, abortAt |-> 0,
     annots |-> <<>>, copied |-> 0, result |-> result]

\* mutant: the critical section is not left when the scope ends
LeaveNever(t) == lock

\* ScopedCritSec::~ScopedCritSec: LeaveCriticalSection
Leave(t) == IF lock = t THEN NoThread ELSE lock

\* where RenderBitmap goes on after the bitmap and the cookie are made:
\* ScopedCritSec scope(&pagesAccess) comes before DrawHtmlPage
RenderEntry == "r_lock"

\* the step of a call that follows the entry into the critical section
AfterEnter(pcv) ==
    CASE pcv = "r_lock" -> "r_draw"
      [] pcv = "e_lock" -> "e_body"
      [] pcv = "u_lock" -> "u_body"
      [] pcv = "m_lock" -> "m_body"

\* a thread returns from a call: its frame keeps the result only
Return(t, op, result) ==
    /\ pc' = [pc EXCEPT ![t] = "idle"]
    /\ frame' = [frame EXCEPT ![t] = IdleFrame(op, result)]

\* RenderBitmap up to the critical section: the bitmap is made and filled
\* white and, when the caller passed cookieOut, a cookie is handed out
CallRenderBitmap(t, pageNo, cookieOut) ==
    /\ created = "engine"
    /\ pc[t] = "idle"
    /\ pageNo \in 1..Len(pages)
    /\ pc' = [pc EXCEPT ![t] = RenderEntry]
    /\ frame' = [frame EXCEPT ![t] =
                    [IdleFrame("RenderBitmap", Nothing) EXCEPT
                        !.arg = pageNo, !.cookie = cookieOut]]
    /\ abort' = [abort EXCEPT ![t] = FALSE]
    /\ UNCHANGED <<engineVars, textVars, fileVars, cloneVars, appVars, lock, userAnnots>>

\* ScopedCritSec::ScopedCritSec: EnterCriticalSection waits until the
\* critical section is free
Enter(t) ==
    /\ pc[t] \in {"r_lock", "e_lock", "u_lock", "m_lock"}
    /\ lock = NoThread
    /\ lock' = t
    /\ pc' = [pc EXCEPT ![t] = AfterEnter(pc[t])]
    /\ UNCHANGED <<engineVars, textVars, fileVars, cloneVars, appVars, frame, abort, userAnnots>>

\* DrawHtmlPage: before each instruction the abort flag is looked at; the
\* loop ends when it is set or when all instructions are drawn
DrawHtmlPage(t) ==
    /\ pc[t] = "r_draw"
    /\ IF (frame[t].cookie /\ abort[t]) \/ frame[t].drawn = Len(pages[frame[t].arg])
       THEN /\ pc' = [pc EXCEPT ![t] = "r_annots"]
            /\ UNCHANGED frame
       ELSE /\ frame' = [frame EXCEPT ![t].drawn = @ + 1]
            /\ UNCHANGED pc
    /\ UNCHANGED <<engineVars, textVars, fileVars, cloneVars, appVars, lock, abort, userAnnots>>

\* DrawAnnotations(g, userAnnots, pageNo): the annotations of the page
DrawAnnotations(t) ==
    /\ pc[t] = "r_annots"
    /\ frame' = [frame EXCEPT ![t].annots =
                    SelectSeq(userAnnots, LAMBDA a : a.pageNo = frame[t].arg)]
    /\ pc' = [pc EXCEPT ![t] = "r_check"]
    /\ UNCHANGED <<engineVars, textVars, fileVars, cloneVars, appVars, lock, abort, userAnnots>>

\* mutant: the bitmap is returned whatever the cookie says
RenderResultIgnoringAbort(cookie, aborted, drawn, annots) ==
    Returned("bitmap", [drawn |-> drawn, annots |-> annots])

\* lines 399-405: no bitmap when the cookie says abort, else the bitmap
RenderResult(cookie, aborted, drawn, annots) ==
    IF cookie /\ aborted THEN Returned("null", <<>>)
    ELSE Returned("bitmap", [drawn |-> drawn, annots |-> annots])

\* the end of RenderBitmap
RenderReturn(t) ==
    /\ pc[t] = "r_check"
    /\ pc' = [pc EXCEPT ![t] = "idle"]
    /\ frame' = [frame EXCEPT ![t].result =
                    RenderResult(frame[t].cookie, abort[t], frame[t].drawn,
                                 frame[t].annots)]
    /\ lock' = Leave(t)
    /\ UNCHANGED <<engineVars, textVars, fileVars, cloneVars, appVars, abort, userAnnots>>

\* EbookAbortCookie::Abort, called by the owner of the cookie of a render
\* that has not returned yet
Abort(t) ==
    /\ pc[t] \in {"r_lock", "r_draw", "r_annots", "r_check"}
    /\ frame[t].cookie
    /\ ~abort[t]
    /\ abort' = [abort EXCEPT ![t] = TRUE]
    /\ frame' = [frame EXCEPT ![t].abortAt = frame[t].drawn]
    /\ UNCHANGED <<engineVars, textVars, fileVars, cloneVars, appVars, pc, lock, userAnnots>>

\* ExtractPageText: the first statement is the ScopedCritSec
CallExtractPageText(t, pageNo, sep) ==
    /\ created = "engine"
    /\ pc[t] = "idle"
    /\ pageNo \in 1..Len(pages)
    /\ pc' = [pc EXCEPT ![t] = "e_lock"]
    /\ frame' = [frame EXCEPT ![t] =
                    [IdleFrame("ExtractPageText", Nothing) EXCEPT
                        !.arg = <<pageNo, sep>>]]
    /\ UNCHANGED <<engineVars, textVars, fileVars, cloneVars, appVars, lock, abort, userAnnots>>

ExtractPageTextBody(t) ==
    /\ pc[t] = "e_body"
    /\ Return(t, "ExtractPageText",
              Returned("text", ExtractPageText(pages[frame[t].arg[1]], frame[t].arg[2])))
    /\ lock' = Leave(t)
    /\ UNCHANGED <<engineVars, textVars, fileVars, cloneVars, appVars, abort, userAnnots>>

\* the list is replaced without entering the critical section
UpdateEntryUnlocked == "u_body"

\* where UpdateUserAnnotations begins: ScopedCritSec scope(&pagesAccess) is
\* its first statement
UpdateEntry == "u_lock"

\* UpdateUserAnnotations(list): list is the empty list for a null pointer
CallUpdateUserAnnotations(t, list) ==
    /\ created = "engine"
    /\ pc[t] = "idle"
    /\ pc' = [pc EXCEPT ![t] = UpdateEntry]
    /\ frame' = [frame EXCEPT ![t] =
                    [IdleFrame("UpdateUserAnnotations", Nothing) EXCEPT !.arg = list]]
    /\ UNCHANGED <<engineVars, textVars, fileVars, cloneVars, appVars, lock, abort, userAnnots>>

\* userAnnots = *list, one element of the vector after the other: the
\* elements copied so far replace the old content
CopyUserAnnotation(t) ==
    /\ pc[t] = "u_body"
    /\ frame[t].copied < Len(frame[t].arg)
    /\ userAnnots' = SubSeq(frame[t].arg, 1, frame[t].copied + 1)
    /\ frame' = [frame EXCEPT ![t].copied = @ + 1]
    /\ UNCHANGED <<engineVars, textVars, fileVars, cloneVars, appVars, pc, lock, abort>>

\* the end of the assignment (userAnnots.Reset() for a null list) and of
\* the scope
UpdateUserAnnotationsBody(t) ==
    /\ pc[t] = "u_body"
    /\ frame[t].copied = Len(frame[t].arg)
    /\ userAnnots' = frame[t].arg
    /\ Return(t, "UpdateUserAnnotations", Returned("void", <<>>))
    /\ lock' = Leave(t)
    /\ UNCHANGED <<engineVars, textVars, fileVars, cloneVars, appVars, abort>>

\* GetElements: no critical section
CallGetElements(t, pageNo) ==
    /\ created = "engine"
    /\ pc[t] = "idle"
    /\ pageNo \in 1..Len(pages)
    /\ pc' = [pc EXCEPT ![t] = "g_body"]
    /\ frame' = [frame EXCEPT ![t] =
                    [IdleFrame("GetElements", Nothing) EXCEPT !.arg = pageNo]]
    /\ UNCHANGED <<engineVars, textVars, fileVars, cloneVars, appVars, lock, abort, userAnnots>>

GetElementsBody(t) ==
    /\ pc[t] = "g_body"
    /\ Return(t, "GetElements", Returned("els", GetElements(frame[t].arg)))
    /\ UNCHANGED <<engineVars, textVars, fileVars, cloneVars, appVars, lock, abort, userAnnots>>

\* RectD::Contains
Contains(r, pt) ==
    /\ r.x <= pt[1] /\ pt[1] < r.x + r.dx
    /\ r.y <= pt[2] /\ pt[2] < r.y + r.dy

\* GetElementAtPos: the first element of GetElements whose rect has the point
ElementAtPos(pageNo, pt) ==
    LET list == GetElements(pageNo)
        hits == {j \in 1..Len(list) : Contains(list[j].rect, pt)}
    IN  IF hits = {} THEN NoElement
        ELSE list[CHOOSE j \in hits : \A h \in hits : j <= h]

\* GetElementAtPos: no critical section
CallGetElementAtPos(t, pageNo, pt) ==
    /\ created = "engine"
    /\ pc[t] = "idle"
    /\ pageNo \in 1..Len(pages)
    /\ pc' = [pc EXCEPT ![t] = "p_body"]
    /\ frame' = [frame EXCEPT ![t] =
                    [IdleFrame("GetElementAtPos", Nothing) EXCEPT
                        !.arg = <<pageNo, pt>>]]
    /\ UNCHANGED <<engineVars, textVars, fileVars, cloneVars, appVars, lock, abort, userAnnots>>

GetElementAtPosBody(t) ==
    /\ pc[t] = "p_body"
    /\ Return(t, "GetElementAtPos",
              Returned("el", ElementAtPos(frame[t].arg[1], frame[t].arg[2])))
    /\ UNCHANGED <<engineVars, textVars, fileVars, cloneVars, appVars, lock, abort, userAnnots>>

\* EbookEngine::GetNamedDest: no critical section
CallGetNamedDest(t, name) ==
    /\ created = "engine"
    /\ engine # "mobi"
    /\ pc[t] = "idle"
    /\ pc' = [pc EXCEPT ![t] = "n_body"]
    /\ frame' = [frame EXCEPT ![t] =
                    [IdleFrame("GetNamedDest", Nothing) EXCEPT !.arg = name]]
    /\ UNCHANGED <<engineVars, textVars, fileVars, cloneVars, appVars, lock, abort, userAnnots>>

GetNamedDestBody(t) ==
    /\ pc[t] = "n_body"
    /\ Return(t, "GetNamedDest", Returned("dest", GetNamedDest(frame[t].arg)))
    /\ UNCHANGED <<engineVars, textVars, fileVars, cloneVars, appVars, lock, abort, userAnnots>>

\* _wtoi: the number a name starts with, 0 when it starts with none
DigitOf(c) ==
    CASE c = "0" -> 0 [] c = "1" -> 1 [] c = "2" -> 2 [] c = "3" -> 3
      [] c = "4" -> 4 [] c = "5" -> 5 [] c = "6" -> 6 [] c = "7" -> 7
      [] c = "8" -> 8 [] c = "9" -> 9 [] OTHER -> -1

RECURSIVE Digits(_, _)
Digits(s, n) ==
    IF s = <<>> \/ DigitOf(s[1]) < 0 THEN n
    ELSE Digits(Tail(s), 10 * n + DigitOf(s[1]))

\* the white space a number may begin with
RECURSIVE SkipSpaces(_)
SkipSpaces(s) == IF s # <<>> /\ s[1] = " " THEN SkipSpaces(Tail(s)) ELSE s

Wtoi(name) ==
    LET s == SkipSpaces(name) IN
    IF s # <<>> /\ s[1] = "-" THEN 0 - Digits(Tail(s), 0)
    ELSE IF s # <<>> /\ s[1] = "+" THEN Digits(Tail(s), 0)
    ELSE Digits(s, 0)

\* Where the formatter found the text of the pages in the HTML of the
\* document: every token is one byte of the HTML.  HtmlPage::reparseIdx is
\* the position the page starts at, StrPos the position of the text of an
\* instruction, the instructions of a page taken to stem from the bytes that
\* follow its start (all text lies inside the HTML, none in the allocator),
\* HtmlLen is htmlData.size().
ReparseIdx(pageNo) == reparse[pageNo]
StrPos(pageNo, k) == ReparseIdx(pageNo) + k - 1
HtmlLen == Len(html)

\* the loop one page too early: pages->at(pageNo - 1)
RECURSIVE MobiPageNoOfThisPage(_, _)
MobiPageNoOfThisPage(filePos, pageNo) ==
    IF pageNo < Len(pages) /\ ~(ReparseIdx(pageNo) > filePos)
    THEN MobiPageNoOfThisPage(filePos, pageNo + 1)
    ELSE pageNo

\* MobiEngineImpl::GetNamedDest, lines 1036-1041: the first page after page 1
\* whose reparseIdx is greater than filePos ends the loop
RECURSIVE MobiPageNo(_, _)
MobiPageNo(filePos, pageNo) ==
    IF pageNo < Len(pages) /\ ~(ReparseIdx(pageNo + 1) > filePos)
    THEN MobiPageNo(filePos, pageNo + 1)
    ELSE pageNo

\* lines 1055-1062: the y of the first text run of the page that lies at or
\* after filePos in the HTML, the bottom of the page when there is none
MobiCurrY(filePos, pageNo) ==
    LET page == pages[pageNo]
        hit(k) == /\ page[k].type \in {"String", "RtlString"}
                  /\ StrPos(pageNo, k) >= 0
                  /\ StrPos(pageNo, k) <= HtmlLen
                  /\ StrPos(pageNo, k) >= filePos
        hits == {k \in 1..Len(page) : hit(k)}
    IN  IF hits = {} THEN PageLines + 2 * PageBorder
        ELSE page[CHOOSE k \in hits : \A h \in hits : k <= h].y

\* line 1033: filePos < 0 || 0 == filePos && *name != '0'
MobiNameRejected(name) ==
    LET filePos == Wtoi(name)
    IN  filePos < 0 \/ (filePos = 0 /\ (name = <<>> \/ name[1] # "0"))

\* MobiEngineImpl::GetNamedDest, from the name to the destination
MobiGetNamedDest(name) ==
    LET filePos == Wtoi(name)
        pageNo == MobiPageNo(filePos, 1)
    IN  IF MobiNameRejected(name) THEN NotFound
        ELSE IF filePos > HtmlLen THEN NotFound
        ELSE SimpleDest2(pageNo, MobiCurrY(filePos, pageNo) + PageBorder)

\* a call of MobiEngineImpl::GetNamedDest while no other thread is in a call
LookupMobiDest(name) ==
    /\ created = "engine"
    /\ engine = "mobi"
    /\ query' = name
    /\ dest' = MobiGetNamedDest(name)
    /\ UNCHANGED <<loadVars, els, others>>

\* MobiEngineImpl::GetNamedDest up to the first look at the pages
CallMobiGetNamedDest(t, name) ==
    /\ created = "engine"
    /\ engine = "mobi"
    /\ pc[t] = "idle"
    /\ LET filePos == Wtoi(name) IN
       IF MobiNameRejected(name)
       THEN Return(t, "GetNamedDest", Returned("dest", NotFound))
       ELSE /\ pc' = [pc EXCEPT ![t] = "m_scan"]
            /\ frame' = [frame EXCEPT ![t] =
                            [IdleFrame("GetNamedDest", Nothing) EXCEPT
                                !.arg = <<filePos, 0>>]]
    /\ UNCHANGED <<engineVars, textVars, fileVars, cloneVars, appVars, lock, abort, userAnnots>>

\* lines 1036-1049: the page is found from the reparse indexes of the pages,
\* outside the critical section
MobiScanPages(t) ==
    /\ pc[t] = "m_scan"
    /\ LET filePos == frame[t].arg[1] IN
       IF filePos > HtmlLen
       THEN Return(t, "GetNamedDest", Returned("dest", NotFound))
       ELSE /\ pc' = [pc EXCEPT ![t] = "m_lock"]
            /\ frame' = [frame EXCEPT ![t].arg = <<filePos, MobiPageNo(filePos, 1)>>]
    /\ UNCHANGED <<engineVars, textVars, fileVars, cloneVars, appVars, lock, abort, userAnnots>>

\* lines 1051-1065, inside the critical section
MobiGetNamedDestBody(t) ==
    /\ pc[t] = "m_body"
    /\ LET filePos == frame[t].arg[1]
           pageNo == frame[t].arg[2]
       IN  Return(t, "GetNamedDest",
                  Returned("dest", SimpleDest2(pageNo,
                                    MobiCurrY(filePos, pageNo) + PageBorder)))
    /\ lock' = Leave(t)
    /\ UNCHANGED <<engineVars, textVars, fileVars, cloneVars, appVars, abort, userAnnots>>

(***************************************************************************)
(* Clone (part_000:708-716, 870, 976, 1117, 1313, 1555, 1655).  The        *)
(* variables of the engine describe one engine object at a time; when      *)
(* Clone constructs a second engine they describe the new one, and orig    *)
(* keeps the engine Clone was called on.  An engine object is told from    *)
(* another by its id; pagesOf names the engine whose Load allocated the    *)
(* page list the pages pointer refers to, csOf the engine whose member     *)
(* the critical section pagesAccess is.                                    *)
(***************************************************************************)
\* the thread of the window that shows the first engine
ViewThread == "view"

\* an engine as new EpubEngineImpl() and the like construct it: its own
\* members, and later the page list its own Load allocates
EngineObject(id, source) == [id |-> id, pagesOf |-> id, csOf |-> id, source |-> source]

\* orig before Clone is called
NoEngine == [state |-> "none", id |-> 0, pagesOf |-> 0, csOf |-> 0, pages |-> <<>>,
             anchors |-> <<>>, baseAnchors |-> <<>>, userAnnots |-> <<>>,
             lock |-> NoThread, arg |-> <<>>]

NoClone ==
    /\ self = EngineObject(1, "file")
    /\ orig = NoEngine
    /\ freed = {}

\* nothing of the application has run
NoRanges == rangeCall = [input |-> <<>>, result |-> <<>>, pc |-> "idle", ok |-> FALSE]
NoGoto ==
    gotoCall = [named |-> [name |-> NullStr, dest |-> [found |-> FALSE, pageNo |-> 0]],
                toc |-> <<>>, hasToc |-> FALSE, labels |-> <<>>, hasLabels |-> FALSE,
                name |-> <<>>, steps |-> <<>>, hasDest |-> FALSE, found |-> "none",
                moves |-> 0, pc |-> "idle"]
NoToc ==
    tocBuilder = [items |-> <<>>, root |-> 0, idCounter |-> 0, isIndex |-> FALSE,
                  visited |-> <<>>]
NoChm ==
    chmFile = [infos |-> <<>>, path |-> NullStr, pc |-> "idle", has |-> FALSE,
               got |-> [ok |-> FALSE, len |-> 0]]
\* gGlobalData and the frame window before InstallerThread runs
InstallerData(hwndFrame, silent, justExtractFiles, options) ==
    [pc |-> "idle", hwndFrame |-> hwndFrame, silent |-> silent,
     justExtractFiles |-> justExtractFiles, options |-> options, success |-> FALSE,
     done |-> {}, failed |-> 0, progress |-> 0, posted |-> 0, handled |-> 0, msg |-> "none"]

NoInstaller == installer = InstallerData(FALSE, FALSE, FALSE, {})
NoCollector == collector = [home |-> NullStr, toc |-> <<>>, paths |-> <<>>, stage |-> "idle", i |-> 0]
NoApp == NoRanges /\ NoCollector /\ NoGoto /\ NoToc /\ NoChm /\ NoInstaller

\* an engine that shares the page list and the critical section of the
\* engine it was cloned from
SharingEngine(from) == [from EXCEPT !.id = @ + 1]
\* the engine CreateFromFile or CreateFromStream constructs for Clone
NewEngine(from) == EngineObject(from.id + 1, from.source)

\* what Clone has to load from: EpubEngineImpl keeps the stream or the file
\* name, the other engines only the file name
CanClone == engine = "epub" \/ self.source = "file"

\* Clone on the loaded engine, up to the constructor of the new engine
Clone ==
    /\ created = "engine"
    /\ orig.state = "none"
    /\ \A t \in Threads : pc[t] = "idle"
    /\ CanClone
    /\ orig' = [NoEngine EXCEPT !.state = "engine", !.id = self.id, !.pagesOf = self.pagesOf,
                                !.csOf = self.csOf, !.pages = pages, !.anchors = anchors,
                                !.baseAnchors = baseAnchors, !.userAnnots = userAnnots]
    /\ self' = NewEngine(self)
    /\ phase' = "collect"
    /\ created' = "pending"
    /\ html' = <<>>
    /\ pos' = 1
    /\ pages' = <<>>
    /\ currPage' = <<>>
    /\ currY' = 0
    /\ currX' = 0
    /\ reparse' = <<0>>
    /\ pagePath' = NullStr
    /\ anchors' = <<>>
    /\ baseAnchors' = <<>>
    /\ query' = NoQuery
    /\ dest' = NotFound
    /\ els' = NoElements
    /\ userAnnots' = <<>>
    /\ UNCHANGED <<engine, objects, added, textVars, pc, frame, lock, abort, fileVars, freed, appVars>>

\* Clone on an engine that has neither a file name nor a stream to load
\* from: return nullptr
CloneNull ==
    /\ created = "engine"
    /\ orig.state = "none"
    /\ ~CanClone
    /\ orig' = [NoEngine EXCEPT !.state = "nullptr"]
    /\ UNCHANGED <<engineVars, textVars, renderVars, fileVars, self, freed, appVars>>

\* the thread that is inside the critical section cs
CsOwner(cs) ==
    IF self.csOf = cs /\ lock # NoThread THEN lock
    ELSE IF orig.csOf = cs /\ orig.lock # NoThread THEN orig.lock
    ELSE NoThread

\* UpdateUserAnnotations(list) on the first engine: ScopedCritSec
OrigCallUpdateUserAnnotations(list) ==
    /\ orig.state = "engine"
    /\ CsOwner(orig.csOf) = NoThread
    /\ orig' = [orig EXCEPT !.lock = ViewThread, !.arg = list]
    /\ UNCHANGED <<engineVars, textVars, renderVars, fileVars, self, freed, appVars>>

\* and its body, to the end of the scope
OrigUpdateUserAnnotationsBody ==
    /\ orig.state = "engine"
    /\ orig.lock = ViewThread
    /\ orig' = [orig EXCEPT !.userAnnots = orig.arg, !.lock = NoThread, !.arg = <<>>]
    /\ UNCHANGED <<engineVars, textVars, renderVars, fileVars, self, freed, appVars>>

\* EbookEngine::~EbookEngine on the first engine: inside the critical
\* section the pages are deleted
OrigDelete ==
    /\ orig.state = "engine"
    /\ CsOwner(orig.csOf) = NoThread
    /\ orig' = [orig EXCEPT !.state = "deleted", !.pages = <<>>]
    /\ freed' = freed \cup {orig.pagesOf}
    /\ UNCHANGED <<engineVars, textVars, renderVars, fileVars, self, appVars>>

(***************************************************************************)
(* FileModifications.cpp: the modifications file <filePath>.smx.  A file   *)
(* is the sequence of its blocks (a comment line or a [section] with its   *)
(* key = value lines); the blank lines between blocks are implied.  A      *)
(* value is kept as the text prints it: an integer for %d and %02x, the    *)
(* six significant digits of %g.                                           *)
(***************************************************************************)
\* a block of the file: a section [key] and the values of the lines the
\* code knows about (<<>> for a line that is missing); extra stands for
\* the lines a newer version wrote that this version knows nothing about
Block(key, version, page, rect, color, opacity, extra) ==
    [key |-> key, version |-> version, page |-> page, rect |-> rect, color |-> color,
     opacity |-> opacity, extra |-> extra]

\* "# SumatraPDF: modifications to ...": a comment line
CommentBlock == Block("#", FALSE, <<>>, <<>>, <<>>, <<>>, <<>>)
\* [@meta] or [@update] with version, filesize and timestamp
MetaBlock(isUpdate) ==
    Block(IF isUpdate THEN "@update" ELSE "@meta", TRUE, <<>>, <<>>, <<>>, <<>>, <<>>)

\* PageAnnotation(type, pageNo, rect, color); color is <<r, g, b, a>>
PageAnnotation(type, pageNo, rect, color) ==
    [type |-> type, pageNo |-> pageNo, rect |-> rect, color |-> color]

\* n / d rounded to the nearest integer
RoundDiv(n, d) == (2 * n + d) \div (2 * d)

\* %g of a coordinate: six significant digits
FormatG(v) ==
    IF v < 1000000 THEN v
    ELSE IF v < 10000000 THEN RoundDiv(v, 10) * 10
    ELSE RoundDiv(v, 100) * 100

\* "opacity = %g" of annot.color.a / 255.f: the decimal <<digits, scale>>
\* that stands for digits / scale, with six significant digits
FormatOpacity(a) ==
    IF a = 0 THEN <<0, 1>>
    ELSE LET scale == IF 10 * a >= 255 THEN 1000000
                      ELSE IF 100 * a >= 255 THEN 10000000
                      ELSE 100000000
         IN <<RoundDiv(a * scale, 255), scale>>

\* (uint8_t)(255 * opacity) of the parsed opacity; 1.0f when the line is
\* missing
ParseOpacity(opacity) ==
    IF opacity = <<>> THEN 255
    ELSE ((255 * opacity[1]) \div opacity[2]) % 256

\* the section name SaveFileModifictions writes for a type ("" for a type
\* it skips)
SectionOf(type) ==
    CASE type = "Highlight" -> "highlight"
      [] type = "Underline" -> "underline"
      [] type = "StrikeOut" -> "strikeout"
      [] type = "Squiggly" -> "squiggly"
      [] OTHER -> ""

\* the type ParseFileModifications reads from a section name
TypeOf(key) ==
    CASE key = "highlight" -> "Highlight"
      [] key = "underline" -> "Underline"
      [] key = "strikeout" -> "StrikeOut"
      [] key = "squiggly" -> "Squiggly"
      [] OTHER -> "None"

\* the block SaveFileModifictions writes for an annotation
AnnotBlock(annot) ==
    Block(SectionOf(annot.type), FALSE, <<annot.pageNo>>,
          <<FormatG(annot.rect[1]), FormatG(annot.rect[2]),
            FormatG(annot.rect[3]), FormatG(annot.rect[4])>>,
          <<annot.color[1], annot.color[2], annot.color[3]>>,
          FormatOpacity(annot.color[4]), <<>>)

\* a nullable Vec<PageAnnotation>*
NullList == [ok |-> FALSE, items |-> <<>>]
ListOf(items) == [ok |-> TRUE, items |-> items]

\* a file that does not exist, and a file with the given blocks
NoSmx == [exists |-> FALSE, blocks |-> <<>>]
Smx(blocks) == [exists |-> TRUE, blocks |-> blocks]

\* the data items of the SquareTree root: comment lines are not items
DataItems(blocks) == SelectSeq(blocks, LAMBDA b : b.key # "#")

\* does the loop body of ParseFileModifications append an annotation for
\* this item
ParsesAsAnnot(b) ==
    /\ TypeOf(b.key) # "None"
    /\ Len(b.page) = 1
    /\ Len(b.rect) = 4
    /\ Len(b.color) = 3

\* the annotation it appends
ParseAnnot(b) ==
    PageAnnotation(TypeOf(b.key), b.page[1], b.rect,
                   <<b.color[1], b.color[2], b.color[3], ParseOpacity(b.opacity)>>)

RECURSIVE ParseItems(_)
ParseItems(items) ==
    IF items = <<>> THEN <<>>
    ELSE (IF ParsesAsAnnot(Head(items)) THEN <<ParseAnnot(Head(items))>> ELSE <<>>)
         \o ParseItems(Tail(items))

\* ParseFileModifications(data)
ParseFileModifications(file) ==
    LET items == DataItems(file.blocks)
    IN IF ~file.exists THEN NullList
       ELSE IF items = <<>> THEN NullList
       ELSE IF Head(items).key # "@meta" THEN NullList
       ELSE IF ~Head(items).version THEN NullList
       ELSE ListOf(ParseItems(items))

\* PageAnnotation::operator==
AnnotEq(a, b) ==
    /\ a.type = b.type
    /\ a.pageNo = b.pageNo
    /\ a.rect = b.rect
    /\ a.color = b.color

\* the loop of SaveFileModifictions that counts the annotations the list
\* shares with the file; list->at(offset) beyond the end of the list reads
\* whatever lies there, and beyond says whether that compares equal
RECURSIVE CommonOffset(_, _, _, _)
CommonOffset(prevList, items, offset, beyond) ==
    IF offset >= Len(prevList) THEN offset
    ELSE IF offset >= Len(items)
         THEN (IF beyond THEN CommonOffset(prevList, items, offset + 1, beyond) ELSE offset)
    ELSE IF AnnotEq(prevList[offset + 1], items[offset + 1])
         THEN CommonOffset(prevList, items, offset + 1, beyond)
    ELSE offset

\* the indexes at which that loop reads list->at(offset), counted from 0
RECURSIVE ListReads(_, _, _, _)
ListReads(prevList, items, offset, beyond) ==
    IF offset >= Len(prevList) THEN {}
    ELSE {offset} \cup
         (IF (offset >= Len(items) /\ beyond)
               \/ (offset < Len(items) /\ AnnotEq(prevList[offset + 1], items[offset + 1]))
          THEN ListReads(prevList, items, offset + 1, beyond)
          ELSE {})

\* a second loop that writes the whole list
RECURSIVE NewBlocksAll(_, _)
NewBlocksAll(items, offset) ==
    IF items = <<>> THEN <<>>
    ELSE (IF SectionOf(items[1].type) # "" THEN <<AnnotBlock(items[1])>> ELSE <<>>)
         \o NewBlocksAll(Tail(items), offset)

\* the blocks the second loop of SaveFileModifictions writes for
\* list[offset..]
RECURSIVE NewBlocks(_, _)
NewBlocks(items, offset) ==
    IF offset >= Len(items) THEN <<>>
    ELSE (IF SectionOf(items[offset + 1].type) # "" THEN <<AnnotBlock(items[offset + 1])>>
          ELSE <<>>)
         \o NewBlocks(items, offset + 1)

\* the start of data: the previous content for an update, the comment line
\* otherwise
SaveStartRewrite(file, isUpdate) == <<CommentBlock>>
SaveStart(file, isUpdate) == IF isUpdate THEN file.blocks ELSE <<CommentBlock>>

\* if (list->size() == offset) return true
NothingToSaveNever(size, offset) == FALSE
NothingToSave(size, offset) == size = offset

NotSaved == [called |-> FALSE, ret |-> FALSE, wrote |-> FALSE, prev |-> NoSmx,
             data |-> <<>>, list |-> NullList, fresh |-> FALSE, reads |-> {}]

\* SaveFileModifictions(filePath, list): what it returns, whether it wrote
\* the file, and the data it wrote
SaveFileModifictions(file, l, beyond, wasFresh) ==
    LET prevList == ParseFileModifications(file)
        isUpdate == prevList.ok
        offset == IF isUpdate THEN CommonOffset(prevList.items, l.items, 0, beyond) ELSE 0
        data == SaveStart(file, isUpdate) \o <<MetaBlock(isUpdate)>> \o NewBlocks(l.items, offset)
        call == [NotSaved EXCEPT !.called = TRUE, !.prev = file, !.list = l, !.fresh = wasFresh]
        firstLoop == IF isUpdate THEN ListReads(prevList.items, l.items, 0, beyond) ELSE {}
    IN IF ~l.ok THEN call
       ELSE IF NothingToSave(Len(l.items), offset)
       THEN [call EXCEPT !.ret = TRUE, !.reads = firstLoop]
       ELSE [call EXCEPT !.ret = TRUE, !.wrote = TRUE, !.data = data,
                         !.reads = firstLoop \cup offset..(Len(l.items) - 1)]

\* no call on the modifications file yet
NoFile ==
    /\ smx = NoSmx
    /\ annotList = NullList
    /\ fresh = FALSE
    /\ saved = NotSaved

\* annotList = LoadFileModifications(filePath)
LoadFileModifications ==
    /\ annotList' = ParseFileModifications(smx)
    /\ fresh' = annotList'.ok
    /\ UNCHANGED <<smx, saved>>
    /\ UNCHANGED <<engineVars, textVars, renderVars, cloneVars, appVars>>

\* the user adds an annotation: the caller appends it to its list, which
\* it creates when it has none
AddAnnotation(annot) ==
    /\ Len(annotList.items) < MaxAnnots
    /\ annotList' = ListOf(Append(annotList.items, annot))
    /\ fresh' = FALSE
    /\ UNCHANGED <<smx, saved>>
    /\ UNCHANGED <<engineVars, textVars, renderVars, cloneVars, appVars>>

\* a call SaveFileModifictions(filePath, list)
\* the user removes an annotation: the caller takes it out of its list
RemoveAnnotation(i) ==
    /\ annotList.ok
    /\ i \in 1..Len(annotList.items)
    /\ annotList' = ListOf(SubSeq(annotList.items, 1, i - 1)
                              \o SubSeq(annotList.items, i + 1, Len(annotList.items)))
    /\ fresh' = FALSE
    /\ UNCHANGED <<smx, saved>>
    /\ UNCHANGED <<engineVars, textVars, renderVars, cloneVars, appVars>>

SaveModifications(beyond) ==
    /\ Len(smx.blocks) <= MaxBlocks
    /\ saved' = SaveFileModifictions(smx, annotList, beyond, fresh)
    /\ smx' = IF saved'.wrote THEN Smx(saved'.data) ELSE smx
    /\ fresh' = (fresh /\ ~saved'.wrote)
    /\ UNCHANGED annotList
    /\ UNCHANGED <<engineVars, textVars, renderVars, cloneVars, appVars>>

(***************************************************************************)
(* Inputs and the specification of loading a CHM document and looking up   *)
(* named destinations in it.                                               *)
(***************************************************************************)
\* the objects of the CHM document
ChmObjects == {<<"a">>, <<"b">>}

\* the urls the collector is handed: two paths, one with a fragment, an
\* absolute url and none
Urls == {<<"a">>, <<"b">>, <<"b", "#", "x">>, <<"h", ":", "a">>, NullStr}

\* the ids of <a id> tags: x, X and the UTF-8 bytes of U+E9
AnchorIds == {<<"x">>, <<"X">>, <<"C3", "A9">>}

DestTokens == {AnchorTok(id) : id \in AnchorIds} \cup {TextTok, PlainPagebreakTok}

\* the names looked up
DestNames ==
    {<<"x">>, <<"X">>, <<"U+E9">>, <<"z">>, <<"a">>, <<"#", "x">>,
     <<"a", "#", "x">>, <<"A", "#", "X">>, <<"b", "#", "x">>,
     <<"a", "#", "U+E9">>, <<"b", "#", "U+E9">>,
     <<"a", "#", "z">>, <<"b", "#", "z">>, <<"a", "#">>,
     <<"c", "#", "x">>, <<"c", "#", "z">>}

InitEngine(e, objs) ==
    /\ objects = objs
    /\ engine = e
    /\ phase = "collect"
    /\ created = "pending"
    /\ added = <<>>
    /\ html = <<>>
    /\ pos = 1
    /\ pages = <<>>
    /\ currPage = <<>>
    /\ currY = 0
    /\ currX = 0
    /\ reparse = <<0>>
    /\ pagePath = NullStr
    /\ anchors = <<>>
    /\ baseAnchors = <<>>
    /\ query = NoQuery
    /\ dest = NotFound
    /\ els = NoElements

\* no call of ExtractPageText
NoText ==
    /\ tpage = <<>>
    /\ lineSep = <<>>
    /\ text = NoResult

\* no thread is in a call
NoCalls ==
    /\ pc = [t \in Threads |-> "idle"]
    /\ frame = [t \in Threads |-> IdleFrame("none", Nothing)]
    /\ lock = NoThread
    /\ abort = [t \in Threads |-> FALSE]
    /\ userAnnots = <<>>

Init == InitEngine("chm", ChmObjects) /\ NoText /\ NoCalls /\ NoFile /\ NoClone /\ NoApp

\* the engines
Engines == {"epub", "fb2", "mobi", "pdb", "chm", "html", "txt"}

Format ==
    \/ HandleTagPagebreak
    \/ HandleAnchorAttr
    \/ HandleText
    \/ FinishLoading

Next ==
    \/ \E url \in Urls, hasData \in BOOLEAN,
          data \in SeqsUpTo(DestTokens, MaxContent) : Visit(url, hasData, data)
    \/ GetHtml
    \/ Format
    \/ CreateReturn
    \/ \E name \in DestNames : LookupNamedDest(name)

Spec == Init /\ [][Next]_vars

(***************************************************************************)
(* Text extraction from one page: the page and the line separator are      *)
(* drawn from bounded sets, then ExtractPageText is called on them.        *)
(***************************************************************************)
\* instructions on the page at most
MaxInstrs == 3

\* the bytes of the text runs: plain, two bytes of one character, an
\* entity, nothing
TextStrs == {<<"a", "b">>, <<"C3", "A9">>, <<"&", "l", "t", ";">>, <<>>}

\* runs four units wide and five high, at the left or in the middle of the
\* first line or on the second line; spaces; an instruction without text
TextInstrs ==
    {DrawInstr("String", s, x, 0, 4, 5, FALSE) : s \in TextStrs, x \in {0, 5}}
    \cup {DrawInstr("String", <<"a", "b">>, 0, 5, 4, 5, FALSE)}
    \cup {DrawInstr("RtlString", s, x, 0, 4, 5, FALSE) :
            s \in {<<"a", "b">>, <<"C3", "A9">>}, x \in {0, 5}}
    \cup {DrawInstr(t, <<>>, 0, 0, 0, 0, FALSE) :
            t \in {"ElasticSpace", "FixedSpace", "Anchor"}}

LineSeps == {<<>>, <<"\r", "\n">>}

InitText ==
    /\ InitEngine("chm", ChmObjects)
    /\ tpage \in SeqsUpTo(TextInstrs, MaxInstrs)
    /\ lineSep \in LineSeps
    /\ text = NoResult
    /\ NoCalls
    /\ NoFile
    /\ NoClone
    /\ NoApp

NextText == ExtractText

SpecText == InitText /\ [][NextText]_vars

(***************************************************************************)
(* Loading a CHM, an HTML or a text document with links and asking for    *)
(* the elements of its pages.                                              *)
(***************************************************************************)
\* the hrefs of the links: a fragment, a fragment of another sub-document,
\* a file that is no sub-document, a URL with a scheme, nothing
Hrefs == {<<"#", "x">>, <<"b", "#", "x">>, <<"z">>, <<"h", ":", "a">>}

\* what a sub-document of a CHM document is made of
ChmLinkTokens ==
    {LinkTok(h, 1) : h \in Hrefs}
    \cup {LinkTok(<<"h", ":", "a">>, 0), AnchorTok(<<"x">>)}

\* what an HTML or text document is made of
HtmlLinkTokens ==
    {LinkTok(h, 1) : h \in Hrefs \cup {<<>>}}
    \cup {AnchorTok(<<"x">>), ImgTok(<<"i">>, 1), TextTok}

InitLinks ==
    /\ \E e \in {"chm", "html", "txt"} :
         \E objs \in {ChmObjects, ChmObjects \cup {<<"z">>}} :
            InitEngine(e, IF e = "chm" THEN objs ELSE {})
    /\ NoText
    /\ NoCalls
    /\ NoFile
    /\ NoClone
    /\ NoApp

NextLinks ==
    \/ \E url \in {<<"a">>, <<"b">>} :
         \E data \in SeqsUpTo(ChmLinkTokens, MaxContent) : Visit(url, TRUE, data)
    \/ GetHtml
    \/ \E data \in SeqsUpTo(HtmlLinkTokens, MaxContent) : LoadDoc(data)
    \/ Format
    \/ HandleTagImg
    \/ HandleTagA
    \/ CreateReturn
    \/ \E pageNo \in 1..MaxHtml : GetPageElements(pageNo)

SpecLinks == InitLinks /\ [][NextLinks]_vars

(***************************************************************************)
(* Two threads calling into one loaded engine.                             *)
(***************************************************************************)
\* the document: an anchor and two lines of text
RenderData == <<AnchorTok(<<"x">>), TextTok, TextTok>>

\* the annotation lists handed to UpdateUserAnnotations
Highlight(pageNo) == [pageNo |-> pageNo, type |-> "Highlight"]
Underline(pageNo) == [pageNo |-> pageNo, type |-> "Underline"]
AnnotLists == {<<>>, <<Highlight(1)>>, <<Underline(1), Highlight(2)>>}
\* a point inside the first line of a page and a point outside the page
Points == {<<PageBorder, PageBorder>>, <<PageRectDx, 0>>}
RenderNames == {<<"x">>, <<"y">>}
\* file positions: the start, inside, beyond the end, negative, no number
MobiNames == {<<"0">>, <<"3">>, <<"9", "9">>, <<"-", "1">>, <<"x">>}

InitRender ==
    /\ \E e \in {"txt", "mobi"} : InitEngine(e, {})
    /\ NoText
    /\ NoCalls
    /\ NoFile
    /\ NoClone
    /\ NoApp

NextRender ==
    \/ LoadDoc(RenderData)
    \/ HandleAnchorAttr
    \/ HandleText
    \/ FinishLoading
    \/ CreateReturn
    \/ \E t \in Renderers, pageNo \in 1..MaxHtml, cookieOut \in BOOLEAN :
          CallRenderBitmap(t, pageNo, cookieOut)
    \/ \E t \in Threads : Enter(t)
    \/ \E t \in Threads : DrawHtmlPage(t)
    \/ \E t \in Threads : DrawAnnotations(t)
    \/ \E t \in Threads : RenderReturn(t)
    \/ \E t \in Threads : Abort(t)
    \/ \E t \in Callers, pageNo \in 1..MaxHtml, sep \in LineSeps :
          CallExtractPageText(t, pageNo, sep)
    \/ \E t \in Threads : ExtractPageTextBody(t)
    \/ \E t \in Callers, list \in AnnotLists : CallUpdateUserAnnotations(t, list)
    \/ \E t \in Threads : CopyUserAnnotation(t)
    \/ \E t \in Threads : UpdateUserAnnotationsBody(t)
    \/ \E t \in Callers, pageNo \in 1..MaxHtml : CallGetElements(t, pageNo)
    \/ \E t \in Threads : GetElementsBody(t)
    \/ \E t \in Callers, pageNo \in 1..MaxHtml, pt \in Points :
          CallGetElementAtPos(t, pageNo, pt)
    \/ \E t \in Threads : GetElementAtPosBody(t)
    \/ \E t \in Callers, name \in RenderNames : CallGetNamedDest(t, name)
    \/ \E t \in Threads : GetNamedDestBody(t)
    \/ \E t \in Callers, name \in MobiNames : CallMobiGetNamedDest(t, name)
    \/ \E t \in Threads : MobiScanPages(t)
    \/ \E t \in Threads : MobiGetNamedDestBody(t)

SpecRender == InitRender /\ [][NextRender]_vars

(***************************************************************************)
(* Creating an engine of each of the seven classes from a document that    *)
(* may be missing, empty or made of empty pages only.                      *)
(***************************************************************************)
CreateTokens == {TextTok, AnchorTok(<<"x">>), PlainPagebreakTok}

InitCreate ==
    /\ \E e \in Engines : InitEngine(e, IF e = "chm" THEN ChmObjects ELSE {})
    /\ NoText
    /\ NoCalls
    /\ NoFile
    /\ NoClone
    /\ NoApp

NextCreate ==
    \/ DocMissing
    \/ \E url \in {<<"a">>, <<"b">>}, hasData \in BOOLEAN,
          data \in SeqsUpTo(CreateTokens, MaxContent) : Visit(url, hasData, data)
    \/ GetHtml
    \/ \E data \in SeqsUpTo(CreateTokens, MaxContent) : LoadDoc(data)
    \/ Format
    \/ CreateReturn

SpecCreate == InitCreate /\ [][NextCreate]_vars

(***************************************************************************)
(* Formatting a document of words, spaces, anchors and page breaks,        *)
(* among them a word wider than the line.                                  *)
(***************************************************************************)
\* tokens of the document at most
MaxTokens == 4

\* a word that is wider than the content width
WideRun == RunTok(<<"w", "i", "d", "e">>, pageDx + 1)

FormatTokens == {RunTok(<<"a">>, 1), RunTok(<<"b", "c">>, 2), WideRun, SpaceTok,
                 PlainPagebreakTok, AnchorTok(<<"x">>)}

InitFormat ==
    /\ \E e \in {"txt", "mobi"} : InitEngine(e, {})
    /\ NoText
    /\ NoCalls
    /\ NoFile
    /\ NoClone
    /\ NoApp

NextFormat ==
    \/ \E data \in SeqsUpTo(FormatTokens, MaxTokens) : LoadDoc(data)
    \/ EmitTextRun
    \/ EmitElasticSpace
    \/ HandleTagPagebreak
    \/ HandleAnchorAttr
    \/ FinishLoading

SpecFormat == InitFormat /\ [][NextFormat]_vars

(***************************************************************************)
(* Loading an engine from a file or a stream, cloning it, and calls on     *)
(* the engine and on its clone.                                            *)
(***************************************************************************)
CloneTokens == {TextTok, AnchorTok(<<"x">>)}

\* the engines that have a CreateFromStream
StreamEngines == {"epub", "fb2", "mobi"}

InitClone ==
    /\ \E e \in {"epub", "fb2", "txt"} : InitEngine(e, {})
    /\ NoText
    /\ NoCalls
    /\ NoFile
    /\ \E source \in {"file", "stream"} :
           /\ source = "stream" => engine \in StreamEngines
           /\ self = EngineObject(1, source)
    /\ orig = NoEngine
    /\ freed = {}
    /\ NoApp

NextClone ==
    \/ DocMissing
    \/ \E data \in SeqsUpTo(CloneTokens, MaxContent) : LoadDoc(data)
    \/ HandleAnchorAttr
    \/ HandleText
    \/ FinishLoading
    \/ CreateReturn
    \/ Clone
    \/ CloneNull
    \/ \E t \in Callers, annots \in AnnotLists : CallUpdateUserAnnotations(t, annots)
    \/ \E t \in Callers : Enter(t)
    \/ \E t \in Callers : CopyUserAnnotation(t)
    \/ \E t \in Callers : UpdateUserAnnotationsBody(t)
    \/ \E annots \in AnnotLists : OrigCallUpdateUserAnnotations(annots)
    \/ OrigUpdateUserAnnotationsBody
    \/ OrigDelete

SpecClone == InitClone /\ [][NextClone]_vars

(***************************************************************************)
(* Inputs and the specification of loading and saving the modifications    *)
(* file of a document.                                                     *)
(***************************************************************************)
\* an annotation of each type the user can add; the alpha 3 and the
\* coordinate 1234567 do not survive the six digits of %g
UserAnnots == {
    PageAnnotation("Highlight", 1, <<0, 0, 5, 5>>, <<255, 255, 0, 204>>),
    PageAnnotation("Underline", 2, <<1, 2, 3, 4>>, <<0, 0, 255, 3>>),
    PageAnnotation("StrikeOut", 1, <<1234567, 0, 5, 5>>, <<255, 0, 0, 255>>),
    PageAnnotation("Squiggly", 3, <<2, 2, 4, 1>>, <<0, 128, 0, 128>>) }

\* a [highlight] block as a newer version wrote it, with a line this
\* version does not know
NewerHighlight == Block("highlight", FALSE, <<1>>, <<0, 0, 5, 5>>, <<255, 255, 0>>, <<8, 10>>, <<1>>)
\* a block of a kind this version does not know
NewerCircle == Block("circle", FALSE, <<1>>, <<0, 0, 5, 5>>, <<255, 0, 0>>, <<>>, <<1>>)

\* what is at <filePath>.smx before the first call: nothing, an empty
\* file, a file of a newer version, a file whose [@meta] has no version,
\* and a file that starts with an annotation
InitialFiles == {
    NoSmx,
    Smx(<<>>),
    Smx(<<CommentBlock, MetaBlock(FALSE), NewerCircle, NewerHighlight>>),
    Smx(<<Block("@meta", FALSE, <<>>, <<>>, <<>>, <<>>, <<>>), NewerHighlight>>),
    Smx(<<NewerHighlight>>) }

InitMods ==
    /\ InitEngine("txt", {})
    /\ NoText
    /\ NoCalls
    /\ NoClone
    /\ NoApp
    /\ smx \in InitialFiles
    /\ annotList = NullList
    /\ fresh = FALSE
    /\ saved = NotSaved

NextMods ==
    \/ LoadFileModifications
    \/ \E annot \in UserAnnots : AddAnnotation(annot)
    \/ \E beyond \in BOOLEAN : SaveModifications(beyond)

SpecMods == InitMods /\ [][NextMods]_vars

\* the same with a caller that also removes annotations from its list
NextEdits ==
    \/ NextMods
    \/ \E i \in 1..MaxAnnots : RemoveAnnotation(i)

SpecEdits == InitMods /\ [][NextEdits]_vars

(***************************************************************************)
(* ExtractPageText on two runs with spaces between them: the first run at  *)
(* the left of the first line, the second anywhere on that line or below   *)
(* it, of widths that are and are not multiples of the numbers of their    *)
(* characters.                                                             *)
(***************************************************************************)
\* space instructions between the two runs at most
MaxSpaces == 2
\* the second run starts at most this far to the right
MaxRunX == 6

RunStrs == {<<>>, <<"a">>, <<"a", "b">>, <<"a", "b", "c">>}
RunTypes == {"String", "RtlString"}
SpaceInstrs == {DrawInstr(t, <<>>, 0, 0, 0, 0, FALSE) : t \in {"ElasticSpace", "FixedSpace"}}

InitRuns ==
    /\ InitEngine("chm", ChmObjects)
    /\ \E t1 \in RunTypes, s1 \in RunStrs, w1 \in {4, 5},
          sp \in SeqsUpTo(SpaceInstrs, MaxSpaces),
          t2 \in RunTypes, s2 \in RunStrs, w2 \in {2, 5},
          x2 \in 0..MaxRunX, y2 \in {0, 4, 5} :
           tpage = <<DrawInstr(t1, s1, 0, 0, w1, 5, FALSE)>> \o sp
                       \o <<DrawInstr(t2, s2, x2, y2, w2, 5, FALSE)>>
    /\ lineSep \in LineSeps
    /\ text = NoResult
    /\ NoCalls
    /\ NoFile
    /\ NoClone
    /\ NoApp

NextRuns == ExtractText

SpecRuns == InitRuns /\ [][NextRuns]_vars

(***************************************************************************)
(* Loading a document whose HTML has anchors, with and without             *)
(* " page_marker />" after the id, at any place of a page.                 *)
(***************************************************************************)
AnchorTokens == {TextTok, AnchorTok(<<"x">>), MarkerAnchorTok(<<"m">>), PlainPagebreakTok}

InitAnchors ==
    /\ \E e \in {"html", "mobi"} : InitEngine(e, {})
    /\ NoText
    /\ NoCalls
    /\ NoFile
    /\ NoClone
    /\ NoApp

NextAnchors ==
    \/ \E data \in SeqsUpTo(AnchorTokens, MaxTokens) : LoadDoc(data)
    \/ HandleText
    \/ HandleTagPagebreak
    \/ HandleAnchorAttr
    \/ FinishLoading

SpecAnchors == InitAnchors /\ [][NextAnchors]_vars

(***************************************************************************)
(* Loading a Mobipocket document, with markup that gives no instruction    *)
(* and page breaks, and looking up file positions in it.                   *)
(***************************************************************************)
MobiTokens == {TextTok, SpaceTok, PlainPagebreakTok}

\* positions inside and beyond the HTML, and names that are no positions
MobiPositions ==
    {<<"0">>, <<"1">>, <<"2">>, <<"3">>, <<"4">>, <<"5">>, <<"6">>, <<"0", "2">>,
     <<"-", "1">>, <<"-", "0">>, <<"x">>, <<>>, <<"2", "x">>, <<" ", "2">>, <<"+", "2">>}

InitMobi ==
    /\ InitEngine("mobi", {})
    /\ NoText
    /\ NoCalls
    /\ NoFile
    /\ NoClone
    /\ NoApp

NextMobi ==
    \/ \E data \in SeqsUpTo(MobiTokens, MaxTokens) : LoadDoc(data)
    \/ HandleText
    \/ EmitElasticSpace
    \/ HandleTagPagebreak
    \/ FinishLoading
    \/ CreateReturn
    \/ \E name \in MobiPositions : LookupMobiDest(name)

SpecMobi == InitMobi /\ [][NextMobi]_vars

(***************************************************************************)
(* Page ranges of the command line (ParseCommandLine.cpp).  A range list   *)
(* is a string of characters; a PageRange is the record of its start and   *)
(* its end.                                                                *)
(***************************************************************************)
INT_MAX == 2147483647

PageRange(start, end) == [start |-> start, end |-> end]

\* WStrVec::Split(s, separator, collapse): the pieces of s between the
\* separators, the empty pieces left out when collapse is set
RECURSIVE SplitFrom(_, _, _, _)
SplitFrom(s, separator, collapse, piece) ==
    LET keep == IF collapse /\ piece = <<>> THEN <<>> ELSE <<piece>> IN
    IF s = <<>> THEN keep
    ELSE IF s[1] = separator
    THEN keep \o SplitFrom(Tail(s), separator, collapse, <<>>)
    ELSE SplitFrom(Tail(s), separator, collapse, Append(piece, s[1]))

Split(s, separator, collapse) == SplitFrom(s, separator, collapse, <<>>)

\* str::CmpNatural(a, b) < 0: numbers compare by value, other characters
\* one by one, special characters before digits
RECURSIVE LeadingDigits(_)
LeadingDigits(s) ==
    IF s = <<>> \/ DigitOf(s[1]) < 0 THEN 0 ELSE 1 + LeadingDigits(Tail(s))

CharRank(c) == IF DigitOf(c) >= 0 THEN 2 + DigitOf(c) ELSE IF c = "-" THEN 1 ELSE 0

RECURSIVE NaturalLess(_, _)
NaturalLess(a, b) ==
    IF a = <<>> \/ b = <<>> THEN a = <<>> /\ b # <<>>
    ELSE IF DigitOf(a[1]) >= 0 /\ DigitOf(b[1]) >= 0
    THEN LET na == LeadingDigits(a)
             nb == LeadingDigits(b)
         IN  IF Digits(a, 0) # Digits(b, 0) THEN Digits(a, 0) < Digits(b, 0)
             ELSE NaturalLess(SubSeq(a, na + 1, Len(a)), SubSeq(b, nb + 1, Len(b)))
    ELSE IF CharRank(a[1]) # CharRank(b[1]) THEN CharRank(a[1]) < CharRank(b[1])
    ELSE NaturalLess(Tail(a), Tail(b))

\* WStrVec::SortNatural: an item comes after the items that are less than
\* it and after the earlier items that are neither less nor greater
NaturalRank(items, i) ==
    Cardinality({j \in 1..Len(items) :
                    \/ NaturalLess(items[j], items[i])
                    \/ j <= i /\ ~NaturalLess(items[i], items[j])})

SortNatural(items) ==
    [k \in 1..Len(items) |-> items[CHOOSE i \in 1..Len(items) : NaturalRank(items, i) = k]]

\* %d of str::Parse: white space, a sign, then at least one digit; rest is
\* what follows the number
ScanDigits(d, negative) ==
    [ok |-> LeadingDigits(d) > 0,
     val |-> IF negative THEN 0 - Digits(d, 0) ELSE Digits(d, 0),
     rest |-> SubSeq(d, LeadingDigits(d) + 1, Len(d))]

ScanSigned(t) ==
    IF t # <<>> /\ t[1] = "-" THEN ScanDigits(Tail(t), TRUE)
    ELSE IF t # <<>> /\ t[1] = "+" THEN ScanDigits(Tail(t), FALSE)
    ELSE ScanDigits(t, FALSE)

ScanInt(s) == ScanSigned(SkipSpaces(s))

NoMatch == [ok |-> FALSE, start |-> 0, end |-> 0]

\* str::Parse(item, L"%d-%d%$", &start, &end)
ClosedEnd(a, b) ==
    IF b.ok /\ b.rest = <<>> THEN [ok |-> TRUE, start |-> a.val, end |-> b.val]
    ELSE NoMatch

ClosedStart(a) ==
    IF a.ok /\ a.rest # <<>> /\ a.rest[1] = "-" THEN ClosedEnd(a, ScanInt(Tail(a.rest)))
    ELSE NoMatch

ParseClosed(item) == ClosedStart(ScanInt(item))

\* str::Parse(item, L"%d-%$", &start)
OpenStart(a) == [ok |-> a.ok /\ a.rest = <<"-">>, start |-> a.val, end |-> 0]

ParseOpen(item) == OpenStart(ScanInt(item))

\* str::Parse(item, L"%d%$", &start)
SingleStart(a) == [ok |-> a.ok /\ a.rest = <<>>, start |-> a.val, end |-> 0]

ParseSingle(item) == SingleStart(ScanInt(item))

\* the tests of the loop without 0 < start
AcceptedAnyStart(closed, open, single) ==
    IF closed.ok /\ closed.start <= closed.end
    THEN [ok |-> TRUE, range |-> PageRange(closed.start, closed.end)]
    ELSE IF open.ok
    THEN [ok |-> TRUE, range |-> PageRange(open.start, INT_MAX)]
    ELSE IF single.ok
    THEN [ok |-> TRUE, range |-> PageRange(single.start, single.start)]
    ELSE [ok |-> FALSE, range |-> PageRange(0, 0)]

\* the tests of the loop of ParsePageRanges on what the three formats read
\* from an item: the range the item stands for
AcceptedRange(closed, open, single) ==
    IF closed.ok /\ 0 < closed.start /\ closed.start <= closed.end
    THEN [ok |-> TRUE, range |-> PageRange(closed.start, closed.end)]
    ELSE IF open.ok /\ 0 < open.start
    THEN [ok |-> TRUE, range |-> PageRange(open.start, INT_MAX)]
    ELSE IF single.ok /\ 0 < single.start
    THEN [ok |-> TRUE, range |-> PageRange(single.start, single.start)]
    ELSE [ok |-> FALSE, range |-> PageRange(0, 0)]

ParseRangeItem(item) == AcceptedRange(ParseClosed(item), ParseOpen(item), ParseSingle(item))

\* the loop: the ranges appended to result before the first item that is
\* none, and whether there was such an item
RECURSIVE AppendRanges(_, _)
RECURSIVE AppendRange(_, _, _)
AppendRange(r, rangeList, result) ==
    IF r.ok THEN AppendRanges(Tail(rangeList), Append(result, r.range))
    ELSE [failed |-> TRUE, result |-> result]

AppendRanges(rangeList, result) ==
    IF rangeList = <<>> THEN [failed |-> FALSE, result |-> result]
    ELSE AppendRange(ParseRangeItem(rangeList[1]), rangeList, result)

\* return result.size() > 0
RangesReturned(done) ==
    [ok |-> ~done.failed /\ Len(done.result) > 0, result |-> done.result]

ParsePageRanges(ranges, result) ==
    IF ranges = NullStr THEN [ok |-> FALSE, result |-> result]
    ELSE RangesReturned(AppendRanges(SortNatural(Split(ranges, ",", TRUE)), result))

IsValidPageRange(ranges) == ParsePageRanges(ranges, <<>>).ok

\* a caller parses the ranges of the command line into an empty list
CallParsePageRanges ==
    /\ rangeCall.pc = "idle"
    /\ LET r == ParsePageRanges(rangeCall.input, <<>>) IN
       rangeCall' = [rangeCall EXCEPT !.pc = "parsed", !.ok = r.ok, !.result = r.result]
    /\ UNCHANGED <<engineVars, textVars, renderVars, fileVars, cloneVars,
                   collector, gotoCall, tocBuilder, chmFile, installer>>

CallIsValidPageRange ==
    /\ rangeCall.pc = "idle"
    /\ rangeCall' = [rangeCall EXCEPT !.pc = "validated",
                                      !.ok = IsValidPageRange(rangeCall.input)]
    /\ UNCHANGED <<engineVars, textVars, renderVars, fileVars, cloneVars,
                   collector, gotoCall, tocBuilder, chmFile, installer>>

(***************************************************************************)
(* The specification of the page ranges: every string of up to             *)
(* MaxRangeLen characters of a range list, and no string at all, is parsed *)
(* or validated once.                                                      *)
(***************************************************************************)
MaxRangeLen == 5

RangeChars == {"0", "1", "2", "-", ","}

RangeInputs == {NullStr} \cup UNION {[1..n -> RangeChars] : n \in 0..MaxRangeLen}

InitRanges ==
    /\ InitEngine("chm", ChmObjects)
    /\ NoText
    /\ NoCalls
    /\ NoFile
    /\ NoClone
    /\ NoCollector /\ NoGoto /\ NoToc /\ NoChm /\ NoInstaller
    /\ \E s \in RangeInputs :
          rangeCall = [input |-> s, result |-> <<>>, pc |-> "idle", ok |-> FALSE]

NextRanges == CallParsePageRanges \/ CallIsValidPageRange

SpecRanges == InitRanges /\ [][NextRanges]_vars

(***************************************************************************)
(* ChmHtmlCollector::GetHtml (part_000:1383-1407) on a CHM document: the   *)
(* home page, the urls of the table of contents in the order ParseToc      *)
(* visits them, and the paths chm_enumerate lists.                         *)
(***************************************************************************)
\* str::EndsWithI
EndsWithI(txt, end) ==
    /\ Len(txt) >= Len(end)
    /\ EqNI(SubSeq(txt, Len(txt) - Len(end) + 1, Len(txt)), end, Len(end))

\* the HTML of an object of the document, tokenised; b.html is empty
DataOf(path) ==
    IF path = <<"b", ".", "h", "t", "m", "l">> THEN <<>> ELSE <<RunTok(path, 1)>>

\* doc->GetData(urlUtf8, &pageHtmlLen) returns data
VisitHasData(url) ==
    url # NullStr /\ ToUtf8(GetFullPath(url)) \in objects

\* a call of Visit from GetHtml or from ParseToc
CollectorVisit(url) ==
    VisitUrl(url, VisitHasData(url),
             IF url = NullStr THEN <<>> ELSE DataOf(ToUtf8(GetFullPath(url))))

collectUnchanged ==
    <<engine, objects, created, phase, pos, pages, currPage, currY, currX, reparse, pagePath,
      anchors, baseAnchors, query, dest, els, textVars, renderVars, fileVars, cloneVars,
      rangeCall, gotoCall, tocBuilder, chmFile, installer>>

\* Visit(nullptr, url, 0) with the home page: first add the homepage
VisitHomePage ==
    /\ collector.stage = "home"
    /\ CollectorVisit(collector.home)
    /\ collector' = [collector EXCEPT !.stage = "toc", !.i = 1]
    /\ UNCHANGED collectUnchanged

\* doc->ParseToc(this): the next item of the table of contents
VisitTocItem ==
    /\ collector.stage = "toc"
    /\ collector.i <= Len(collector.toc)
    /\ CollectorVisit(collector.toc[collector.i])
    /\ collector' = [collector EXCEPT !.i = @ + 1]
    /\ UNCHANGED collectUnchanged

\* ParseToc returns and GetAllPaths lists the files
ParseTocReturns ==
    /\ collector.stage = "toc"
    /\ collector.i > Len(collector.toc)
    /\ collector' = [collector EXCEPT !.stage = "paths", !.i = 1]
    /\ UNCHANGED <<added, html>>
    /\ UNCHANGED collectUnchanged

\* the loop over the paths: the .htm and .html files are visited, without
\* their leading slash
VisitPath ==
    /\ collector.stage = "paths"
    /\ collector.i <= Len(collector.paths)
    /\ LET path == collector.paths[collector.i] IN
       IF EndsWithI(path, <<".", "h", "t", "m">>) \/ EndsWithI(path, <<".", "h", "t", "m", "l">>)
       THEN CollectorVisit(FromUtf8(IF path[1] = "/" THEN Tail(path) ELSE path))
       ELSE UNCHANGED <<added, html>>
    /\ collector' = [collector EXCEPT !.i = @ + 1]
    /\ UNCHANGED collectUnchanged

\* return html.StealData()
GetHtmlReturns ==
    /\ collector.stage = "paths"
    /\ collector.i > Len(collector.paths)
    /\ collector' = [collector EXCEPT !.stage = "done"]
    /\ UNCHANGED <<added, html>>
    /\ UNCHANGED collectUnchanged

(***************************************************************************)
(* The specification of the collector: documents of four HTML files, two   *)
(* of which differ in case only, and an image; the table of contents has   *)
(* up to MaxToc items.                                                     *)
(***************************************************************************)
MaxToc == 2

HtmA == <<"a", ".", "h", "t", "m">>
HtmUpperA == <<"A", ".", "H", "T", "M">>
HtmlB == <<"b", ".", "h", "t", "m", "l">>
PngC == <<"c", ".", "p", "n", "g">>
HtmD == <<"d", ".", "h", "t", "m">>

\* the urls of the items of the table of contents: files, a file with a
\* fragment, an absolute url and an item without url
TocUrls == {HtmA, HtmA \o <<"#", "x">>, HtmUpperA, HtmlB, <<"h", ":", "a">>, NullStr}

\* the paths chm_enumerate hands out begin with a slash
EnumeratedPaths == {<<"/">> \o p : p \in {HtmA, HtmUpperA, HtmD, PngC}}

PathLists ==
    {<<>>} \cup {<<p>> : p \in EnumeratedPaths}
           \cup UNION {{<<p, q>> : q \in EnumeratedPaths \ {p}} : p \in EnumeratedPaths}

InitCollect ==
    /\ \E objs \in SUBSET {HtmA, HtmUpperA, HtmlB} : InitEngine("chm", objs \cup {PngC, HtmD})
    /\ NoText
    /\ NoCalls
    /\ NoFile
    /\ NoClone
    /\ NoRanges /\ NoGoto /\ NoToc /\ NoChm /\ NoInstaller
    /\ \E home \in {HtmA, HtmlB}, toc \in SeqsUpTo(TocUrls, MaxToc), paths \in PathLists :
          collector = [home |-> home, toc |-> toc, paths |-> paths, stage |-> "home", i |-> 0]

NextCollect ==
    \/ VisitHomePage
    \/ VisitTocItem
    \/ ParseTocReturns
    \/ VisitPath
    \/ GetHtmlReturns

SpecCollect == InitCollect /\ [][NextCollect]_vars

(***************************************************************************)
(* LinkHandler::GotoNamedDest (WindowInfo.cpp:471-504).  The controller is *)
(* given by what it answers: the named destinations of the document, its   *)
(* ToC tree and its page labels.  A destination is a page number behind a  *)
(* pointer that may be null; a ToC item is its title, its link and the     *)
(* list of its children.                                                   *)
(***************************************************************************)
\* the pages of the document the window shows
GotoPageCount == 3

NoPageDest == [found |-> FALSE, pageNo |-> 0]
PageDest(pageNo) == [found |-> TRUE, pageNo |-> pageNo]

TocItem(title, link, child) == [title |-> title, link |-> link, child |-> child]

\* str::NormalizeWS: runs of white space become one space, those at the
\* ends are dropped
RECURSIVE CollapseWS(_, _)
CollapseWS(s, afterSpace) ==
    IF s = <<>> THEN <<>>
    ELSE IF s[1] = " "
    THEN (IF afterSpace THEN <<>> ELSE <<" ">>) \o CollapseWS(Tail(s), TRUE)
    ELSE <<s[1]>> \o CollapseWS(Tail(s), FALSE)

TrimEnd(s) == IF s # <<>> /\ s[Len(s)] = " " THEN SubSeq(s, 1, Len(s) - 1) ELSE s

NormalizeWS(s) == TrimEnd(CollapseWS(s, TRUE))

\* NormalizeFuzzy: CharLower, then NormalizeWS
NormalizeFuzzy(str) == NormalizeWS([i \in 1..Len(str) |-> ToLower(str[i])])

\* str::Find(s + from - 1, find) starts at position at
FoundAt(s, find, at) ==
    at + Len(find) - 1 <= Len(s) /\ SubSeq(s, at, at + Len(find) - 1) = find

\* MatchFuzzy(s1, s2, partially): the loop returns at the first occurrence
\* of s2 that begins s1 or follows a space
MatchFuzzy(s1, s2, partially) ==
    IF ~partially THEN s1 = s2
    ELSE \E at \in 1..(Len(s1) + 1) :
            FoundAt(s1, s2, at) /\ (at = 1 \/ s1[at - 1] = " ")

\* LinkHandler::FindTocItem on a list of siblings
RECURSIVE FindTocItem(_, _, _)
RECURSIVE FindInChild(_, _, _, _)
FindInChild(childDest, items, name, partially) ==
    IF childDest.found THEN childDest ELSE FindTocItem(Tail(items), name, partially)

FindTocItem(items, name, partially) ==
    IF items = <<>> THEN NoPageDest
    ELSE IF MatchFuzzy(NormalizeFuzzy(items[1].title), name, partially)
    THEN items[1].link
    ELSE FindInChild(FindTocItem(items[1].child, name, partially), items, name, partially)

\* LinkHandler::ScrollTo(dest): the calls of ScrollToLink it makes
ScrollTo(pageDest) == IF pageDest.found /\ pageDest.pageNo > 0 THEN 1 ELSE 0

\* ctrl->GetNamedDest(name): the document has at most one named destination
GetNamedDestOf(named, name) == IF name = named.name THEN named.dest ELSE NoPageDest

\* ctrl->GetPageByLabel(name): the page of the first label equal to name,
\* 0 when there is none
GetPageByLabel(labels, name) ==
    IF \E i \in 1..Len(labels) : labels[i].label = name
    THEN labels[CHOOSE i \in 1..Len(labels) :
                   labels[i].label = name /\ \A j \in 1..(i - 1) : labels[j].label # name].pageNo
    ELSE 0

\* ctrl->ValidPageNo(pageNo)
ValidPageNo(pageNo) == 1 <= pageNo /\ pageNo <= GotoPageCount

\* the page labels are tried whatever was found
LabelAlways(hasDest) == TRUE

\* if (!hasDest && ctrl->HasPageLabels()): the first half
LabelNeeded(hasDest) == ~hasDest

gotoUnchanged ==
    <<engineVars, textVars, renderVars, fileVars, cloneVars,
      rangeCall, collector, tocBuilder, chmFile, installer>>

\* dest = ctrl->GetNamedDest(name); if (dest) ScrollTo(dest)
GotoNamedDest(name) ==
    /\ gotoCall.pc = "idle"
    /\ LET namedDest == GetNamedDestOf(gotoCall.named, name) IN
       gotoCall' = [gotoCall EXCEPT
                       !.name = name,
                       !.steps = <<"named">>,
                       !.hasDest = namedDest.found,
                       !.found = IF namedDest.found THEN "named" ELSE "none",
                       !.moves = ScrollTo(namedDest),
                       !.pc = IF namedDest.found THEN "labels"
                              ELSE IF gotoCall.hasToc THEN "full" ELSE "labels"]
    /\ UNCHANGED gotoUnchanged

\* dest = FindTocItem(root, fuzName): the full titles
FindFullTitle ==
    /\ gotoCall.pc = "full"
    /\ LET tocDest == FindTocItem(gotoCall.toc, NormalizeFuzzy(gotoCall.name), FALSE) IN
       gotoCall' = [gotoCall EXCEPT
                       !.steps = Append(@, "full"),
                       !.hasDest = tocDest.found,
                       !.found = IF tocDest.found THEN "full" ELSE "none",
                       !.moves = @ + ScrollTo(tocDest),
                       !.pc = IF tocDest.found THEN "labels" ELSE "part"]
    /\ UNCHANGED gotoUnchanged

\* if (!dest) dest = FindTocItem(root, fuzName, true): the starts of words
FindPartOfTitle ==
    /\ gotoCall.pc = "part"
    /\ LET tocDest == FindTocItem(gotoCall.toc, NormalizeFuzzy(gotoCall.name), TRUE) IN
       gotoCall' = [gotoCall EXCEPT
                       !.steps = Append(@, "part"),
                       !.hasDest = tocDest.found,
                       !.found = IF tocDest.found THEN "part" ELSE "none",
                       !.moves = @ + ScrollTo(tocDest),
                       !.pc = "labels"]
    /\ UNCHANGED gotoUnchanged

\* if (!hasDest && ctrl->HasPageLabels()): GetPageByLabel and GoToPage
GotoPageLabel ==
    /\ gotoCall.pc = "labels"
    /\ IF LabelNeeded(gotoCall.hasDest) /\ gotoCall.hasLabels
       THEN LET pageNo == GetPageByLabel(gotoCall.labels, gotoCall.name) IN
            gotoCall' = [gotoCall EXCEPT
                            !.steps = Append(@, "label"),
                            !.found = IF ValidPageNo(pageNo) THEN "label" ELSE @,
                            !.moves = @ + (IF ValidPageNo(pageNo) THEN 1 ELSE 0),
                            !.pc = "done"]
       ELSE gotoCall' = [gotoCall EXCEPT !.pc = "done"]
    /\ UNCHANGED gotoUnchanged

(***************************************************************************)
(* The specification of GotoNamedDest: documents with and without a named  *)
(* destination b, with ToC trees of up to three items in every shape, and  *)
(* with and without page labels.                                           *)
(***************************************************************************)
GotoNames == {<<"a">>, <<"b">>, <<"B">>, <<"a", " ", " ", "b">>, <<"c">>, <<>>}

GotoTitles == {<<"A", " ", "b">>, <<"b">>}

GotoLinks == {NoPageDest, PageDest(2)}

TocLeaves == {TocItem(t, l, <<>>) : t \in GotoTitles, l \in GotoLinks}

TocTrees ==
    {<<>>} \cup {<<i>> : i \in TocLeaves}
           \cup {<<i, j>> : i \in TocLeaves, j \in TocLeaves}
           \cup {<<TocItem(i.title, i.link, <<j>>)>> : i \in TocLeaves, j \in TocLeaves}
           \cup {<<TocItem(i.title, i.link, <<j>>), k>> :
                    i \in TocLeaves, j \in TocLeaves, k \in TocLeaves}

\* what ctrl->GetNamedDest answers: no destination, b on page 1, b on no page
GotoNamed ==
    {[name |-> NullStr, dest |-> NoPageDest],
     [name |-> <<"b">>, dest |-> PageDest(1)],
     [name |-> <<"b">>, dest |-> PageDest(0)]}

\* the page labels: b for page 3, c for a page the document has not
GotoLabels == {<<[label |-> <<"b">>, pageNo |-> GotoPageCount],
                 [label |-> <<"c">>, pageNo |-> GotoPageCount + 6]>>}

InitGoto ==
    /\ InitEngine("chm", ChmObjects)
    /\ NoText
    /\ NoCalls
    /\ NoFile
    /\ NoClone
    /\ NoRanges /\ NoCollector /\ NoToc /\ NoChm /\ NoInstaller
    /\ \E named \in GotoNamed, toc \in TocTrees, hasToc \in BOOLEAN, labels \in GotoLabels,
          hasLabels \in BOOLEAN :
          /\ ~hasToc => toc = <<>>
          /\ gotoCall = [named |-> named, toc |-> toc, hasToc |-> hasToc, labels |-> labels,
                         hasLabels |-> hasLabels, name |-> <<>>, steps |-> <<>>,
                         hasDest |-> FALSE, found |-> "none", moves |-> 0, pc |-> "idle"]

NextGoto ==
    \/ \E name \in GotoNames : GotoNamedDest(name)
    \/ FindFullTitle
    \/ FindPartOfTitle
    \/ GotoPageLabel

SpecGoto == InitGoto /\ [][NextGoto]_vars

(***************************************************************************)
(* EbookTocBuilder (part_000:645-700).  The items are kept in the order    *)
(* they were allocated; an item points to its next sibling and to its      *)
(* first child by their positions, 0 being the null pointer.               *)
(***************************************************************************)
EbookTocItem(id, name, itemDest) ==
    [id |-> id, name |-> name, dest |-> itemDest, pageNo |-> 1, next |-> 0, child |-> 0]

\* the loop that stays at the first item of the level
FirstAtLevel(items, r2) == r2

\* for (; r2->next; r2 = r2->next): the last item of the level of r2
RECURSIVE LastAtLevel(_, _)
LastAtLevel(items, r2) ==
    IF items[r2].next = 0 THEN r2 ELSE LastAtLevel(items, items[r2].next)

\* DocTocItem::AddSibling: the sibling goes behind the last item of the list
RECURSIVE AddSibling(_, _, _)
AddSibling(items, r2, sibling) ==
    IF items[r2].next = 0 THEN [items EXCEPT ![r2].next = sibling]
    ELSE AddSibling(items, items[r2].next, sibling)

\* AppendTocItem below a root that is not null: the loop while (--level > 0)
\* and the call of AddSibling behind it
RECURSIVE AppendBelow(_, _, _, _)
RECURSIVE DescendOrAttach(_, _, _, _)
DescendOrAttach(items, last, item, level) ==
    IF items[last].child # 0 THEN AppendBelow(items, items[last].child, item, level)
    ELSE [items EXCEPT ![last].child = item]

AppendBelow(items, r2, item, level) ==
    IF level - 1 > 0 THEN DescendOrAttach(items, LastAtLevel(items, r2), item, level - 1)
    ELSE AddSibling(items, r2, item)

\* the destination Visit gives the item: none without url, the url itself
\* when it is absolute, else what engine->GetNamedDest finds for it
TocDest(url, found) ==
    IF url = NullStr THEN "null"
    ELSE IF IsAbsolute(url) THEN "url"
    ELSE IF found THEN "named" ELSE "null"

tocUnchanged ==
    <<engineVars, textVars, renderVars, fileVars, cloneVars,
      rangeCall, collector, gotoCall, chmFile, installer>>

\* the number of items a ToC is built of
MaxTocItems == 4

\* EbookTocBuilder::Visit(name, url, level)
TocVisit(name, url, found, level) ==
    /\ Len(tocBuilder.items) < MaxTocItems
    /\ LET id == tocBuilder.idCounter + 1
           item == [EbookTocItem(id, name, TocDest(url, found))
                       EXCEPT !.pageNo = IF tocBuilder.isIndex THEN 0 ELSE @]
           count == Len(tocBuilder.items) + 1
           lvl == IF tocBuilder.isIndex THEN level + 1 ELSE level
       IN  tocBuilder' =
              [tocBuilder EXCEPT
                  !.idCounter = id,
                  !.root = IF @ = 0 THEN count ELSE @,
                  !.items = IF tocBuilder.root = 0 THEN Append(@, item)
                            ELSE AppendBelow(Append(@, item), tocBuilder.root, count, lvl),
                  !.visited = Append(@, name)]
    /\ UNCHANGED tocUnchanged

\* EbookTocBuilder::SetIsIndex(value)
SetIsIndex(value) ==
    /\ tocBuilder.isIndex # value
    /\ tocBuilder' = [tocBuilder EXCEPT !.isIndex = value]
    /\ UNCHANGED tocUnchanged

(***************************************************************************)
(* The specification of the ToC builder: up to MaxTocItems visits with     *)
(* levels from 0 to one far below the tree, between changes of isIndex.    *)
(***************************************************************************)
TocLevels == {0, 1, 2, 3, 9}

TocNames == {<<"a">>, <<"b">>}

InitToc ==
    /\ InitEngine("epub", {})
    /\ NoText
    /\ NoCalls
    /\ NoFile
    /\ NoClone
    /\ NoRanges /\ NoCollector /\ NoGoto /\ NoChm /\ NoInstaller
    /\ NoToc

NextToc ==
    \/ \E name \in TocNames, url \in {NullStr, <<"a">>}, level \in TocLevels :
          TocVisit(name, url, url # NullStr, level)
    \/ \E value \in BOOLEAN : SetIsIndex(value)

SpecToc == InitToc /\ [][NextToc]_vars

(***************************************************************************)
(* Lookups in a CHM file: ChmDoc::HasData and ChmDoc::GetData called for   *)
(* the same name, and a link to an embedded file that is created and then  *)
(* saved (ChmDoc.cpp:22-74, part_000:1500-1522).                           *)
(***************************************************************************)
chmUnchanged ==
    <<engineVars, textVars, renderVars, fileVars, cloneVars,
      rangeCall, collector, gotoCall, tocBuilder, installer>>

\* doc->HasData(fileName)
CallHasData(fileName) ==
    /\ chmFile.pc \in {"idle", "got", "nolink", "saved"}
    /\ chmFile' = [chmFile EXCEPT !.path = fileName, !.has = HasData(fileName),
                                  !.got = NoData, !.pc = "has"]
    /\ UNCHANGED chmUnchanged

\* doc->GetData(fileName, &len) for the name HasData was called with
CallGetData ==
    /\ chmFile.pc = "has"
    /\ chmFile.path # NullStr
    /\ chmFile' = [chmFile EXCEPT !.got = GetData(chmFile.path, chmFile.infos), !.pc = "got"]
    /\ UNCHANGED chmUnchanged

\* ChmEngineImpl::CreatePageLink for a link EbookEngine::CreatePageLink made
\* no element of: url is the normalized url of the link
CreateEmbeddedLink(url) ==
    /\ chmFile.pc \in {"idle", "got", "nolink", "saved"}
    /\ chmFile' = [chmFile EXCEPT !.path = url, !.has = HasData(url), !.got = NoData,
                                  !.pc = IF HasData(url) THEN "link" ELSE "nolink"]
    /\ UNCHANGED chmUnchanged

\* ChmEngineImpl::SaveEmbedded(saveUI, path) of the link created, with a
\* saveUI that saves what it is given
SaveEmbedded ==
    /\ chmFile.pc = "link"
    /\ chmFile' = [chmFile EXCEPT !.got = GetData(chmFile.path, chmFile.infos), !.pc = "saved"]
    /\ UNCHANGED chmUnchanged

(***************************************************************************)
(* The specification of the lookups: a file with up to two objects, each   *)
(* small, of 128 MB or one byte above, retrievable or not, and names with  *)
(* and without leading slashes and with backslashes.                       *)
(***************************************************************************)
ChmFileObjects == {<<"a">>, <<"d", "/", "a">>}

ChmLengths == {1, MaxDataLen, MaxDataLen + 1}

ChmInfos == [length : ChmLengths, retrieved : BOOLEAN]

ChmNames ==
    {NullStr, <<"a">>, <<"/", "a">>, <<"/", "/", "/", "a">>, <<"d", "/", "a">>,
     <<"d", "\\", "a">>, <<"/", "d", "\\", "a">>, <<"x">>}

InitChm ==
    /\ \E objs \in SUBSET ChmFileObjects :
          /\ InitEngine("chm", objs)
          /\ \E infos \in [objs -> ChmInfos] :
                chmFile = [infos |-> infos, path |-> NullStr, pc |-> "idle", has |-> FALSE,
                           got |-> NoData]
    /\ NoText
    /\ NoCalls
    /\ NoFile
    /\ NoClone
    /\ NoRanges /\ NoCollector /\ NoGoto /\ NoToc /\ NoInstaller

NextChm ==
    \/ \E fileName \in ChmNames : CallHasData(fileName)
    \/ CallGetData
    \/ \E url \in ChmNames \ {NullStr} : CreateEmbeddedLink(url)
    \/ SaveEmbedded

SpecChm == InitChm /\ [][NextChm]_vars

(***************************************************************************)
(* InstallerThread and OnInstallationFinished (part_004:309-372, 437-457). *)
(* pc is the position of the thread; done holds the steps that succeeded,  *)
(* failed counts the calls of NotifyFailed, posted and handled count the   *)
(* WM_APP_INSTALLATION_FINISHED messages posted and handled.               *)
(***************************************************************************)
installerUnchanged ==
    <<engineVars, textVars, renderVars, fileVars, cloneVars,
      rangeCall, collector, gotoCall, tocBuilder, chmFile>>

\* the thread starts: gGlobalData.success = false
BeginInstallerThread ==
    /\ installer.pc = "idle"
    /\ installer' = [installer EXCEPT !.success = FALSE, !.pc = "directory"]
    /\ UNCHANGED installerUnchanged

\* if (!CreateInstallationDirectory()) goto Error; ProgressStep()
CreateInstallationDirectory(ok) ==
    /\ installer.pc = "directory"
    /\ installer' =
          IF ok THEN [installer EXCEPT !.done = @ \cup {"directory"}, !.progress = @ + 1,
                                       !.pc = "files"]
          ELSE [installer EXCEPT !.pc = "Error"]
    /\ UNCHANGED installerUnchanged

\* if (!InstallCopyFiles()) goto Error; if (justExtractFiles) return 0
InstallCopyFiles(ok) ==
    /\ installer.pc = "files"
    /\ installer' =
          IF ~ok THEN [installer EXCEPT !.pc = "Error"]
          ELSE [installer EXCEPT !.done = @ \cup {"files"},
                                 !.pc = IF installer.justExtractFiles THEN "ended"
                                        ELSE "options"]
    /\ UNCHANGED installerUnchanged

\* the registration, the PDF filter, the previewer and the browser plugin;
\* none of them can stop the installation
InstallOptions(filterInstalled, previewerInstalled) ==
    /\ installer.pc = "options"
    /\ installer' =
          [installer EXCEPT
              !.done = @ \cup {o \in {"registerAsDefault", "installPdfFilter",
                                      "installPdfPreviewer"} : o \in installer.options}
                         \cup {o \in {"UninstallPdfFilter"} :
                                  "installPdfFilter" \notin installer.options /\ filterInstalled}
                         \cup {o \in {"UninstallPdfPreviewer"} :
                                  "installPdfPreviewer" \notin installer.options
                                  /\ previewerInstalled}
                         \cup {o \in {"UninstallBrowserPlugin"} :
                                  "keepBrowserPlugin" \notin installer.options},
              !.pc = "shortcut"]
    /\ UNCHANGED installerUnchanged

\* a shortcut the run does not need
ShortcutAssumed(allUsers, user) == TRUE

\* !(!CreateAppShortcut(true) && !CreateAppShortcut(false))
ShortcutCreated(allUsers, user) == allUsers \/ user

\* the shortcut; on failure NotifyFailed and goto Error, else
\* gGlobalData.success = true
CreateAppShortcuts(allUsers, user) ==
    /\ installer.pc = "shortcut"
    /\ installer' =
          IF ShortcutCreated(allUsers, user)
          THEN [installer EXCEPT !.done = @ \cup {s \in {"shortcut"} : allUsers \/ user},
                                 !.success = TRUE, !.pc = "registry"]
          ELSE [installer EXCEPT !.failed = @ + 1, !.pc = "Error"]
    /\ UNCHANGED installerUnchanged

\* the number of NotifyFailed calls of the three registry steps
Failures(uninstaller, extensions, win10) ==
    Cardinality({s \in {"uninstaller"} : ~uninstaller}
                \cup {s \in {"extensions"} : ~extensions}
                \cup {s \in {"win10"} : ~win10})

\* WriteUninstallerRegistryInfo, WriteExtendedFileExtensionInfo and
\* ListAsDefaultProgramWin10, each only notified when it fails; ProgressStep()
WriteRegistry(uninstaller, extensions, win10) ==
    /\ installer.pc = "registry"
    /\ installer' = [installer EXCEPT !.failed = @ + Failures(uninstaller, extensions, win10),
                                      !.progress = @ + 1, !.pc = "Error"]
    /\ UNCHANGED installerUnchanged

\* Error: if (gHwndFrame && !gGlobalData.silent) PostMessage(...); return 0
PostInstallationFinished ==
    /\ installer.pc = "Error"
    /\ installer' =
          [installer EXCEPT
              !.posted = IF installer.hwndFrame /\ ~installer.silent THEN @ + 1 ELSE @,
              !.pc = "ended"]
    /\ UNCHANGED installerUnchanged

\* OnInstallationFinished, the handler of WM_APP_INSTALLATION_FINISHED
OnInstallationFinished ==
    /\ installer.handled < installer.posted
    /\ installer' = [installer EXCEPT !.handled = @ + 1,
                                      !.msg = IF installer.success THEN "installed"
                                              ELSE "failed"]
    /\ UNCHANGED installerUnchanged

(***************************************************************************)
(* The specification of the installer: one run of the thread for every     *)
(* setting of the frame window, of silent and justExtractFiles and of the  *)
(* options, every step succeeding or failing.                              *)
(***************************************************************************)
InstallerOptions ==
    {"registerAsDefault", "installPdfFilter", "installPdfPreviewer", "keepBrowserPlugin"}

InitInstaller ==
    /\ InitEngine("epub", {})
    /\ NoText
    /\ NoCalls
    /\ NoFile
    /\ NoClone
    /\ NoRanges /\ NoCollector /\ NoGoto /\ NoToc /\ NoChm
    /\ \E hwndFrame \in BOOLEAN, silent \in BOOLEAN, justExtractFiles \in BOOLEAN,
          options \in SUBSET InstallerOptions :
          installer = InstallerData(hwndFrame, silent, justExtractFiles, options)

NextInstaller ==
    \/ BeginInstallerThread
    \/ \E ok \in BOOLEAN : CreateInstallationDirectory(ok)
    \/ \E ok \in BOOLEAN : InstallCopyFiles(ok)
    \/ \E filterInstalled \in BOOLEAN, previewerInstalled \in BOOLEAN :
          InstallOptions(filterInstalled, previewerInstalled)
    \/ \E allUsers \in BOOLEAN, user \in BOOLEAN : CreateAppShortcuts(allUsers, user)
    \/ \E uninstaller \in BOOLEAN, extensions \in BOOLEAN, win10 \in BOOLEAN :
          WriteRegistry(uninstaller, extensions, win10)
    \/ PostInstallationFinished
    \/ OnInstallationFinished

SpecInstaller == InitInstaller /\ [][NextInstaller]_vars

(***************************************************************************)
(* Vocabulary of the properties, read off the page store itself.           *)
(***************************************************************************)
\* the positions of all instructions, and document order on them
Ptrs == UNION {{<<p, k>> : k \in 1..Len(pages[p])} : p \in 1..Len(pages)}
Before(q, r) == q[1] < r[1] \/ (q[1] = r[1] /\ q[2] < r[2])
FirstOf(S) == CHOOSE q \in S : \A r \in S : r = q \/ Before(q, r)

AnchorPtrs == {q \in Ptrs : InstrAt(pages, q).type = "Anchor"}
\* the page_marker anchors, one per merged sub-document
MarkerPtrs == {q \in AnchorPtrs : InstrAt(pages, q).marker}
\* q lies inside the sub-document that marker m starts
InSpan(q, m) == Before(m, q) /\ \A m2 \in MarkerPtrs : Before(m, m2) => Before(q, m2)
\* the anchor at q has the id (or path) s, ignoring case
HasIdI(q, s) == Len(InstrAt(pages, q).str) = Len(s) /\ EqNI(InstrAt(pages, q).str, s, Len(s))
AnchorsWithIdI(s) == {q \in AnchorPtrs : HasIdI(q, s)}

\* the looked-up name, split at its first '#'
QueryUtf8 == ToUtf8(query)
QueryHash == FindChar(QueryUtf8, "#")
QueryBase == SubSeq(QueryUtf8, 1, QueryHash - 1)
QueryId == SubSeq(QueryUtf8, QueryHash + 1, Len(QueryUtf8))
LookedUp == phase = "loaded" /\ query # NoQuery
\* the name is base#id with a non-empty base
QueryHasBase == LookedUp /\ QueryHash > 1
\* the base matches an entry of the BaseAnchor table
QueryBaseInTable ==
    \E i \in 1..Len(baseAnchors) :
        baseAnchors[i] # NullInstr /\ HasIdI(baseAnchors[i], QueryBase)
\* the page_marker anchors of the sub-document the base names
QueryMarkers == {m \in MarkerPtrs : HasIdI(m, QueryBase)}

\* the destination that scrolls to the anchor at q
ScrollToAnchor(q) == SimpleDest2(q[1], InstrAt(pages, q).y + PageBorder)
\* the destination that scrolls to the top of page p
ScrollToTop(p) == SimpleDest2(p, PageBorder)

(***************************************************************************)
(* C1.  As claimed: for every anchor with id X on page P, the lookup of X  *)
(* (a name without '#') returns a ScrollTo destination on page P.          *)
(***************************************************************************)
C1_AnchorRoundTrip ==
    (LookedUp /\ QueryHash = 0) =>
        \A q \in AnchorPtrs :
            InstrAt(pages, q).str = QueryUtf8 =>
                dest.kind = "ScrollTo" /\ dest.pageNo = q[1]

\* C1, amended: the lookup of X (a name without '#') returns the ScrollTo
\* destination of the first anchor, in page and instruction order, whose id
\* is X ignoring case; that is page P unless an earlier anchor has the id too.
C1_FirstAnchorWins ==
    (LookedUp /\ QueryHash = 0 /\ AnchorsWithIdI(QueryUtf8) # {}) =>
        dest = ScrollToAnchor(FirstOf(AnchorsWithIdI(QueryUtf8)))

C1_Witness ==
    /\ LookedUp
    /\ query = <<"x">>
    /\ \E q, r \in AnchorsWithIdI(<<"x">>) : q[1] < r[1] /\ dest.pageNo = q[1]

(***************************************************************************)
(* C2.  When the sub-documents a and b each hold one anchor with id X, the *)
(* lookups of a#X and b#X return ScrollTo destinations on the page of the  *)
(* anchor inside the named sub-document, and these pages differ, in either *)
(* order of the two sub-documents.                                         *)
(***************************************************************************)
C2_BasePathDisambiguates ==
    QueryHasBase =>
        \A m \in QueryMarkers, m2 \in MarkerPtrs \ QueryMarkers :
            \A q, q2 \in AnchorsWithIdI(QueryId) :
                ( /\ InSpan(q, m)
                  /\ InSpan(q2, m2)
                  /\ \A r \in AnchorsWithIdI(QueryId) : InSpan(r, m) => r = q )
                => /\ dest.kind = "ScrollTo"
                   /\ dest.pageNo = q[1]
                   /\ q[1] # q2[1]

\* the named sub-document is the second of the stream, and both hold the id
C2_Witness ==
    /\ QueryHasBase
    /\ query = <<"a", "#", "x">>
    /\ \E m \in QueryMarkers, m2 \in MarkerPtrs, q, q2 \in AnchorsWithIdI(QueryId) :
          /\ Before(m2, m)
          /\ InSpan(q, m)
          /\ InSpan(q2, m2)
          /\ dest.pageNo = q[1]

(***************************************************************************)
(* C3.  When the base of a name base#id matches an entry of the BaseAnchor *)
(* table and the id matches no anchor on any page, the lookup returns a    *)
(* ScrollTo destination on the first page of that sub-document whose rect  *)
(* starts at the page border.                                              *)
(***************************************************************************)
C3_MissingIdGoesToTop ==
    (QueryHasBase /\ QueryBaseInTable /\ AnchorsWithIdI(QueryId) = {}) =>
        /\ QueryMarkers # {}
        /\ dest = ScrollToTop(FirstOf(QueryMarkers)[1])
        /\ dest.kind = "ScrollTo"
        /\ dest.y = PageBorder

\* the sub-document is not the first one and has more than one page
C3_Witness ==
    /\ QueryHasBase
    /\ QueryBaseInTable
    /\ AnchorsWithIdI(QueryId) = {}
    /\ \E m \in QueryMarkers : 1 < m[1] /\ m[1] < Len(pages) /\ dest.pageNo = m[1]

(***************************************************************************)
(* C4.  As claimed: when the non-empty base of a name base#id matches no   *)
(* entry of the BaseAnchor table, the lookup returns 'not found', also     *)
(* when an anchor with that id exists.                                     *)
(***************************************************************************)
C4_UnknownBaseNotFound ==
    (QueryHasBase /\ ~QueryBaseInTable) => dest = NotFound

\* C4, amended: with such a base the lookup returns 'not found' exactly when
\* no anchor of the document has the id (ignoring case); when one has, it
\* returns the ScrollTo destination of the first of them.  No destination at
\* the top of a sub-document is synthesised.
C4_UnknownBaseFallsBackToId ==
    (QueryHasBase /\ ~QueryBaseInTable) =>
        dest = IF AnchorsWithIdI(QueryId) # {}
               THEN ScrollToAnchor(FirstOf(AnchorsWithIdI(QueryId)))
               ELSE NotFound

C4_Witness ==
    /\ QueryHasBase
    /\ ~QueryBaseInTable
    /\ MarkerPtrs # {}
    /\ AnchorsWithIdI(QueryId) # {}
    /\ dest.kind = "ScrollTo"

(***************************************************************************)
(* C5.  As claimed: when the base was matched, only an anchor inside the   *)
(* span of that sub-document (after its page_marker anchor, before the     *)
(* next one) is returned as an id match; otherwise the lookup degrades to  *)
(* the top of the sub-document.                                            *)
(***************************************************************************)
C5_MatchOnlyInsideSpan ==
    (QueryHasBase /\ QueryBaseInTable) =>
        LET m == FirstOf(QueryMarkers)
            inside == {q \in AnchorsWithIdI(QueryId) : InSpan(q, m)}
        IN  dest = IF inside # {} THEN ScrollToAnchor(FirstOf(inside))
                   ELSE ScrollToTop(m[1])

\* C5, amended: when the base was matched, the first anchor with the id that
\* comes after the page_marker anchor of the sub-document is returned, be it
\* inside that sub-document or inside a later one; an id that occurs only
\* before the page_marker anchor is not returned and the lookup degrades to
\* the top of the sub-document.
C5_MatchOnlyAfterMarker ==
    (QueryHasBase /\ QueryBaseInTable) =>
        LET m == FirstOf(QueryMarkers)
            after == {q \in AnchorsWithIdI(QueryId) : Before(m, q)}
        IN  dest = IF after # {} THEN ScrollToAnchor(FirstOf(after))
                   ELSE ScrollToTop(m[1])

\* the id occurs only in an earlier sub-document
C5_Witness ==
    /\ QueryHasBase
    /\ QueryBaseInTable
    /\ \E m \in QueryMarkers :
          /\ AnchorsWithIdI(QueryId) # {}
          /\ \A q \in AnchorsWithIdI(QueryId) : Before(q, m)
          /\ dest = ScrollToTop(m[1])

(***************************************************************************)
(* C6.  ExtractPageText returns one box per character of the text it       *)
(* returns, the characters of the line separators and the inserted spaces  *)
(* included, for every instruction list and every line separator, the      *)
(* empty one included.                                                     *)
(***************************************************************************)
C6_CoordsMatchText ==
    text.called => Len(text.coords) = Len(text.content)

\* C6 witness: a text with an inserted space that has a box with a positive
\* width, a character decoded from two bytes, and a non-empty separator
C6_Witness ==
    /\ text.called
    /\ lineSep # <<>>
    /\ \E k \in 1..Len(text.content) :
          text.content[k] = " " /\ text.coords[k].dx > 0
    /\ \E k \in 1..Len(text.content) : text.content[k] = "U+E9"
    /\ EndsWith(text.content, lineSep)

(***************************************************************************)
(* C9.  For each of the seven engines: a Load whose formatter produced no  *)
(* page returns false, CreateFromFile and CreateFromStream return nullptr  *)
(* exactly when Load returned false, and an engine that was handed out     *)
(* has at least one page.                                                  *)
(***************************************************************************)
C9_EngineHasPages ==
    /\ (phase \in {"loaded", "failed"} /\ Len(pages) = 0) => phase = "failed"
    /\ created = "nullptr" => phase = "failed"
    /\ created = "engine" => phase = "loaded" /\ Len(pages) >= 1

\* C9 witness: the document was opened and formatted, the formatter produced
\* no page, and no engine was handed out
C9_Witness ==
    /\ html # <<>>
    /\ pos > Len(html)
    /\ Len(pages) = 0
    /\ phase = "failed"
    /\ created = "nullptr"

(***************************************************************************)
(* Vocabulary of the properties of the calls from threads.                 *)
(***************************************************************************)
\* thread t is in RenderBitmap or has returned from it
Rendering(t) == frame[t].op = "RenderBitmap"
\* the call of thread t has returned
HasReturned(t) == pc[t] = "idle" /\ frame[t].op # "none"
\* the abort flag of the render of thread t is set
AbortSet(t) == frame[t].cookie /\ abort[t]
\* the instructions of the page thread t renders
RenderedPage(t) == pages[frame[t].arg]
\* the steps in which a call reads the pages, the tables built from them
\* or the annotation list
ReadingPcs ==
    {"r_draw", "r_annots", "e_body", "u_body", "g_body", "p_body", "n_body",
     "m_scan", "m_body"}
\* the steps a thread makes inside the critical section
LockedPcs == {"r_draw", "r_annots", "r_check", "e_body", "u_body", "m_body"}

(***************************************************************************)
(* C7.  Once the abort flag of a render is set no further instruction is   *)
(* drawn and RenderBitmap returns no bitmap; a bitmap that RenderBitmap    *)
(* returns has all instructions of its page drawn, under every             *)
(* interleaving of Abort with the drawing loop.                            *)
(***************************************************************************)
C7_NoPartialBitmap ==
    \A t \in Threads :
        Rendering(t) =>
            /\ AbortSet(t) => frame[t].drawn = frame[t].abortAt
            /\ HasReturned(t) =>
                /\ frame[t].result.kind \in {"bitmap", "null"}
                /\ AbortSet(t) => frame[t].result.kind = "null"
                /\ frame[t].result.kind = "bitmap" =>
                    /\ frame[t].result.val.drawn = Len(RenderedPage(t))
                    /\ frame[t].drawn = Len(RenderedPage(t))

\* C7 witness: a render that was aborted after its first instruction and
\* before its last has returned no bitmap
C7_Witness ==
    \E t \in Threads :
        /\ Rendering(t)
        /\ HasReturned(t)
        /\ AbortSet(t)
        /\ frame[t].drawn > 0
        /\ frame[t].drawn < Len(RenderedPage(t))
        /\ frame[t].result.kind = "null"

(***************************************************************************)
(* C8.  As claimed: every call is inside the critical section pagesAccess  *)
(* in every step in which it reads the pages, the tables built from them   *)
(* or the annotation list, and a thread that has returned does not own     *)
(* the critical section.                                                   *)
(***************************************************************************)
C8_AllReadersLocked ==
    \A t \in Threads :
        /\ pc[t] \in ReadingPcs => lock = t
        /\ pc[t] = "idle" => lock # t

\* C8, amended: a thread owns pagesAccess exactly while it draws the page
\* and the annotations in RenderBitmap, extracts text in ExtractPageText,
\* replaces the list in UpdateUserAnnotations or scans the instructions of
\* the page in MobiEngineImpl::GetNamedDest; GetElements, GetElementAtPos,
\* EbookEngine::GetNamedDest and the search of the page by reparse index in
\* MobiEngineImpl::GetNamedDest read the pages outside the critical section;
\* a thread that has returned, on whatever path, does not own it.
C8_LockDiscipline ==
    \A t \in Threads :
        /\ pc[t] \in LockedPcs <=> lock = t
        /\ pc[t] \in {"g_body", "p_body", "n_body", "m_scan", "idle"} => lock # t

\* C8 witness: the render thread draws inside the critical section while the
\* other thread reads the pages in GetElements, and the other thread has
\* returned from a call that took the critical section before
C8_Witness ==
    /\ pc["render"] = "r_draw"
    /\ lock = "render"
    /\ pc["ui"] = "g_body"
    /\ userAnnots # <<>>

(***************************************************************************)
(* Vocabulary of the properties of GetElements.                            *)
(***************************************************************************)
\* GetElements was called, on page ElsPage
GotElements == els.pageNo # 0
ElsPage == pages[els.pageNo]
LinkStarts == {k \in 1..Len(ElsPage) : ElsPage[k].type = "LinkStart"}
Images == {k \in 1..Len(ElsPage) : ElsPage[k].type = "Image"}
\* the elements returned for instruction k of the page
ElementsOf(k) ==
    {j \in 1..Len(els.list) : els.list[j].instr = <<els.pageNo, k>>}
HrefOf(k) == FromHtmlUtf8(ElsPage[k].str)
AbsoluteHref(k) == IsAbsolute(HrefOf(k))
\* the page has a base anchor and BasePathOf is its path
HasBase == baseAnchors[els.pageNo] # NullInstr
BasePathOf == InstrAt(pages, baseAnchors[els.pageNo]).str
\* the href resolved against the base anchor of the page
ResolvedHref(k) ==
    IF HasBase THEN NormalizeURL(ResolveHtmlEntities(ElsPage[k].str), BasePathOf)
    ELSE ToUtf8(HrefOf(k))
\* named-destination lookup of the resolved href yields a destination
LookupSucceeds(k) == GetNamedDest(FromUtf8(ResolvedHref(k))) # NotFound
\* a relative link whose lookup fails
DeadLink(k) ==
    /\ k \in LinkStarts
    /\ ~IsEmptyArea(ElsPage[k])
    /\ ~AbsoluteHref(k)
    /\ ~LookupSucceeds(k)
\* the href is one HtmlEngineImpl launches as a file without any lookup
LaunchesFile(k) ==
    /\ engine = "html"
    /\ Len(ElsPage[k].str) > 0
    /\ ~AbsoluteHref(k)
    /\ HrefOf(k)[1] # "#"
\* the href names an object of the CHM document
EmbeddedObject(k) ==
    /\ engine = "chm"
    /\ HasBase
    /\ NormalizeURL(ElsPage[k].str, BasePathOf) \in objects

IsPrefix(p, s) == Len(p) <= Len(s) /\ SubSeq(s, 1, Len(p)) = p
\* what follows the first n elements of s
After(s, n) == SubSeq(s, n + 1, Len(s))
\* the last call of SaveFileModifictions wrote the file
Wrote == saved.called /\ saved.wrote
\* the file it found parses as a modifications file
PrevParses == ParseFileModifications(saved.prev).ok
\* the annotations the file it found holds for this version
PrevItems == ParseFileModifications(saved.prev).items
\* the number of leading annotations the list shares with the file
SharedPrefix ==
    CHOOSE k \in 0..Len(saved.list.items) :
        /\ k <= Len(PrevItems)
        /\ \A i \in 1..k : saved.list.items[i] = PrevItems[i]
        /\ ~ /\ k < Len(saved.list.items)
             /\ k < Len(PrevItems)
             /\ saved.list.items[k + 1] = PrevItems[k + 1]
\* the blocks of the annotations from position n + 1 of the list on
BlocksAfter(n) ==
    [i \in 1..(Len(saved.list.items) - n) |-> AnnotBlock(saved.list.items[n + i])]

(***************************************************************************)
(* C11.  As claimed: whenever SaveFileModifictions writes over an existing *)
(* modifications file that is not empty, what it writes begins with the    *)
(* previous content of the file, block for block, and goes on with an      *)
(* [@update] block and the annotations after the common prefix, and with   *)
(* nothing else.                                                           *)
(***************************************************************************)
C11_PreviousContentKept ==
    (Wrote /\ saved.prev.exists /\ saved.prev.blocks # <<>>) =>
        /\ IsPrefix(saved.prev.blocks, saved.data)
        /\ After(saved.data, Len(saved.prev.blocks))
               = <<MetaBlock(TRUE)>> \o BlocksAfter(SharedPrefix)

(***************************************************************************)
(* C11, amended.  When the file it finds parses as a modifications file    *)
(* (its first section is [@meta] with a version line), what                *)
(* SaveFileModifictions writes is the previous content, block for block,   *)
(* then an [@update] block and the annotations after the common prefix.  A *)
(* file that does not parse is replaced: what is written is the comment    *)
(* line, a [@meta] block and all annotations of the list.                  *)
(***************************************************************************)
C11_ParsedContentKept ==
    /\ (Wrote /\ PrevParses) =>
          /\ IsPrefix(saved.prev.blocks, saved.data)
          /\ After(saved.data, Len(saved.prev.blocks))
                 = <<MetaBlock(TRUE)>> \o BlocksAfter(SharedPrefix)
    /\ (Wrote /\ ~PrevParses) =>
          saved.data = <<CommentBlock, MetaBlock(FALSE)>> \o BlocksAfter(0)

\* an update of a file of a newer version: the block of the unknown kind
\* and the unknown line are kept, one annotation is shared and one appended
C11_Witness ==
    /\ Wrote
    /\ PrevParses
    /\ SharedPrefix = 1
    /\ Len(saved.list.items) = 2
    /\ Len(saved.data) = 6
    /\ saved.data[3] = NewerCircle
    /\ saved.data[4] = NewerHighlight

(***************************************************************************)
(* C12.  Saving the list that LoadFileModifications returned, unchanged,   *)
(* writes nothing and reports success.                                     *)
(***************************************************************************)
C12_LoadThenSaveWritesNothing ==
    (saved.called /\ saved.fresh) => (saved.ret /\ ~saved.wrote)

\* a file that an earlier save wrote, with an alpha and a coordinate that
\* %g does not keep, is loaded and saved again
C12_Witness ==
    /\ saved.called
    /\ saved.fresh
    /\ saved.prev.blocks # <<>>
    /\ saved.prev.blocks[1] = CommentBlock
    /\ \E i \in 1..Len(saved.prev.blocks) : saved.prev.blocks[i].opacity = FormatOpacity(3)
    /\ \E i \in 1..Len(saved.prev.blocks) :
           /\ saved.prev.blocks[i].rect # <<>>
           /\ saved.prev.blocks[i].rect[1] = 1234570
    /\ \E i \in 1..Len(saved.list.items) : saved.list.items[i].color[4] = 2
    /\ {saved.list.items[i].type : i \in 1..Len(saved.list.items)} = {"Underline", "StrikeOut"}

(***************************************************************************)
(* Vocabulary of the properties of the formatted pages.                    *)
(***************************************************************************)
\* the formatter is done and its pages are the engine's
Formatted == phase \in {"loaded", "failed"}
\* the bytes of the words of a token stream, in input order
RECURSIVE WordsOf(_)
WordsOf(toks) ==
    IF toks = <<>> THEN <<>>
    ELSE (IF Head(toks).tag = "run" THEN Head(toks).val ELSE <<>>) \o WordsOf(Tail(toks))
\* the text ExtractPageText returns for each page, one after the other
RECURSIVE AllPagesText(_)
AllPagesText(pgs) ==
    IF pgs = <<>> THEN <<>>
    ELSE ExtractPageText(Head(pgs), <<"\n">>).content \o AllPagesText(Tail(pgs))
\* a text without its spaces and line separators
NonWhite(s) == SelectSeq(s, LAMBDA c : c \notin {" ", "\n"})
\* the content rect: the page rect shrunk by the border on each side
ContentRect == RectI(PageBorder, PageBorder, pageDx, PageLines)
\* the box r lies inside the box c
Inside(r, c) ==
    /\ r.x >= c.x
    /\ r.y >= c.y
    /\ BRx(r) <= BRx(c)
    /\ r.y + r.dy <= c.y + c.dy
\* the positions of the instructions of the pages
InstrPtrs == UNION {{<<p, k>> : k \in 1..Len(pages[p])} : p \in 1..Len(pages)}
\* the instruction is a word wider than the content width
TooWide(i) == i.type = "String" /\ i.dx > pageDx

(***************************************************************************)
(* C13.  Every word fed to the formatter appears, in input order, in the   *)
(* text extracted from the produced pages, the word wider than the content *)
(* width included: the extracted text of all pages without its spaces and  *)
(* line separators is the words of the input one after the other.          *)
(***************************************************************************)
C13_NoContentLoss ==
    Formatted => NonWhite(AllPagesText(pages)) = WordsOf(html)

\* a document with the wide word between two other words, on several pages
C13_Witness ==
    /\ phase = "loaded"
    /\ Len(pages) >= 2
    /\ \E k \in 2..(Len(html) - 1) :
           /\ html[k] = WideRun
           /\ \E j \in 1..(k - 1) : html[j].tag = "run"
           /\ \E j \in (k + 1)..Len(html) : html[j].tag = "run"

C15_CloneIsIndependent ==
    orig.state \in {"engine", "deleted"} =>
        /\ self.id # orig.id
        /\ self.pagesOf = self.id
        /\ self.csOf = self.id
        /\ created = "engine" =>
              /\ phase = "loaded"
              /\ pos > Len(html)
              /\ Len(pages) > 0
              /\ anchors = ExtractPageAnchors(pages).anchors
              /\ baseAnchors = ExtractPageAnchors(pages).baseAnchors
              /\ self.pagesOf \notin freed
        /\ lock = NoThread => CsOwner(self.csOf) = NoThread
        /\ (orig.state = "engine" /\ orig.lock = NoThread) => CsOwner(orig.csOf) = NoThread

\* both engines are loaded, a thread is inside the critical section of each,
\* and their annotation lists and their pages differ
C15_Witness ==
    /\ orig.state = "engine"
    /\ created = "engine"
    /\ lock # NoThread
    /\ orig.lock # NoThread
    /\ userAnnots # <<>>
    /\ orig.userAnnots # <<>>
    /\ userAnnots # orig.userAnnots
    /\ pages # orig.pages

(***************************************************************************)
(* Vocabulary of the properties of ExtractPageText, read off the page and  *)
(* the text and boxes extracted from it.                                   *)
(***************************************************************************)
\* content and coords after the first k instructions of the page
Extracted(k) ==
    TextLoop(SubSeq(tpage, 1, k), 1,
             [content |-> <<>>, coords |-> <<>>, insertSpace |-> FALSE], lineSep)
\* the characters and the boxes the k-th instruction added
AddedText(k) == After(Extracted(k).content, Len(Extracted(k - 1).content))
AddedBoxes(k) == After(Extracted(k).coords, Len(Extracted(k - 1).coords))
\* the text returned begins with what the first k instructions gave
InResult(k) ==
    /\ IsPrefix(Extracted(k).content, text.content)
    /\ IsPrefix(Extracted(k).coords, text.coords)
IsRun(k) == tpage[k].type \in RunTypes
RunsBefore(k) == {j \in 1..(k - 1) : IsRun(j)}
\* the run before the k-th instruction
PrevRun(k) == CHOOSE j \in RunsBefore(k) : \A h \in RunsBefore(k) : h <= j
\* the box of the last character extracted before the k-th instruction
LastBox(k) == Extracted(k - 1).coords[Len(Extracted(k - 1).coords)]
SomeText(k) == Len(Extracted(k - 1).coords) > 0
\* the k-th instruction added a line separator and then its characters
SepInserted(k) ==
    /\ Len(AddedText(k)) = Len(lineSep) + StrLen(tpage[k])
    /\ IsPrefix(lineSep, AddedText(k))
\* the k-th instruction added one space and then its characters
SpaceInserted(k) ==
    /\ Len(AddedText(k)) = 1 + StrLen(tpage[k])
    /\ AddedText(k)[1] = " "
\* the k-th instruction added its characters and nothing else
NothingInserted(k) == Len(AddedText(k)) = StrLen(tpage[k])
\* the run starts left of the right edge of r, or more than 80% of the
\* height of r below the top of r
WrapsOrDescends(bbox, r) == bbox.x < BRx(r) \/ 5 * bbox.y > 5 * r.y + 4 * r.dy
StringRuns == {k \in 1..Len(tpage) : tpage[k].type = "String"}

(***************************************************************************)
(* C16 as stated, for a left-to-right run of at least one character that   *)
(* follows a left-to-right run of at least one character.  A line          *)
(* separator is inserted before the run exactly when it starts left of the *)
(* right edge of the previous run or more than 80% of the height of the    *)
(* previous run below its top.                                             *)
(***************************************************************************)
C16_SeparatorByPreviousRun ==
    (text.called /\ lineSep # <<>>) =>
        \A k \in StringRuns :
            (/\ RunsBefore(k) # {}
             /\ tpage[PrevRun(k)].type = "String"
             /\ StrLen(tpage[PrevRun(k)]) > 0
             /\ StrLen(tpage[k]) > 0) =>
                (SepInserted(k) <=>
                    WrapsOrDescends(GetInstrBbox(tpage[k]), GetInstrBbox(tpage[PrevRun(k)])))

(***************************************************************************)
(* C16 as amended.  A line separator is inserted before a left-to-right    *)
(* run exactly when text was already extracted and the run starts left of  *)
(* the right edge of the box of the last character extracted, or more than *)
(* 80% of the height of that box below its top; otherwise the run adds no  *)
(* separator.                                                              *)
(***************************************************************************)
C16_SeparatorByLastBox ==
    (text.called /\ lineSep # <<>>) =>
        \A k \in StringRuns :
            /\ InResult(k)
            /\ SepInserted(k) <=>
                   (SomeText(k) /\ WrapsOrDescends(GetInstrBbox(tpage[k]), LastBox(k)))
            /\ ~SepInserted(k) => (SpaceInserted(k) \/ NothingInserted(k))

\* a left-to-right run starts left of the right edge of the run before it
\* and right of the box of that run's last character: no separator
C16_Witness ==
    /\ text.called
    /\ lineSep # <<>>
    /\ \E k \in StringRuns :
          /\ RunsBefore(k) # {}
          /\ tpage[PrevRun(k)].type = "String"
          /\ SomeText(k)
          /\ GetInstrBbox(tpage[k]).x < BRx(GetInstrBbox(tpage[PrevRun(k)]))
          /\ GetInstrBbox(tpage[k]).x >= BRx(LastBox(k))
          /\ GetInstrBbox(tpage[k]).y = LastBox(k).y
          /\ ~SepInserted(k)
          /\ StrLen(tpage[k]) > 0

\* the space instructions between the run before the k-th instruction, or
\* the start of the page, and the k-th instruction
SpacesBefore(k) ==
    {j \in 1..(k - 1) : /\ tpage[j].type \in {"ElasticSpace", "FixedSpace"}
                        /\ \A h \in RunsBefore(k) : h < j}
SpacesIn(s) == {j \in 1..Len(s) : s[j] = " "}
AllRuns == {k \in 1..Len(tpage) : IsRun(k)}
\* the gap between r, to the left for a left-to-right run, and the run
GapFrom(r, bbox, rtl) == IF rtl THEN r.x - BRx(bbox) ELSE bbox.x - BRx(r)
\* the box spanning that gap, as high as the run
GapBox(r, bbox, rtl) ==
    RectI(IF rtl THEN BRx(bbox) ELSE BRx(r), bbox.y, GapFrom(r, bbox, rtl), bbox.dy)
\* the condition under which a line separator goes before the run
BreaksLine(r, bbox, rtl) ==
    \/ IF rtl THEN BRx(bbox) > r.x ELSE bbox.x < BRx(r)
    \/ 5 * bbox.y > 5 * r.y + 4 * r.dy

(***************************************************************************)
(* C17 as stated, for a left-to-right run of at least one character that   *)
(* follows a left-to-right run of at least one character.  A space is      *)
(* inserted between them only when the horizontal gap between the two runs *)
(* is positive, and its box spans exactly that gap.                        *)
(***************************************************************************)
C17_SpaceSpansGapOfRuns ==
    text.called =>
        \A k \in StringRuns :
            (/\ RunsBefore(k) # {}
             /\ tpage[PrevRun(k)].type = "String"
             /\ StrLen(tpage[PrevRun(k)]) > 0
             /\ StrLen(tpage[k]) > 0
             /\ SpaceInserted(k)) =>
                LET prev == GetInstrBbox(tpage[PrevRun(k)])
                    bbox == GetInstrBbox(tpage[k])
                IN  /\ GapFrom(prev, bbox, FALSE) > 0
                    /\ AddedBoxes(k)[1] = GapBox(prev, bbox, FALSE)

(***************************************************************************)
(* C17 as amended.  Before a run at most one space is inserted, however    *)
(* many space instructions precede it; one is inserted only when a space   *)
(* instruction lies between the run and the run before it, text was        *)
(* already extracted, no line separator goes before the run, and the gap   *)
(* between the box of the last character extracted and the run is          *)
(* positive; the box of the space spans exactly that gap.                  *)
(***************************************************************************)
C17_OneSpaceSpanningGap ==
    text.called =>
        \A k \in AllRuns :
            LET bbox == GetInstrBbox(tpage[k])
                rtl == tpage[k].type = "RtlString"
            IN  /\ InResult(k)
                /\ Cardinality(SpacesIn(AddedText(k))) <= 1
                /\ SpacesIn(AddedText(k)) # {} =>
                      /\ SpaceInserted(k)
                      /\ SpacesBefore(k) # {}
                      /\ SomeText(k)
                      /\ ~BreaksLine(LastBox(k), bbox, rtl)
                      /\ GapFrom(LastBox(k), bbox, rtl) > 0
                      /\ AddedBoxes(k)[1] = GapBox(LastBox(k), bbox, rtl)

\* two space instructions before a left-to-right run that starts at the
\* right edge of the run before it: one space, spanning the gap left by
\* the box of the last character
C17_Witness ==
    /\ text.called
    /\ \E k \in StringRuns :
          /\ Cardinality(SpacesBefore(k)) = 2
          /\ RunsBefore(k) # {}
          /\ tpage[PrevRun(k)].type = "String"
          /\ GetInstrBbox(tpage[k]).x = BRx(GetInstrBbox(tpage[PrevRun(k)]))
          /\ SpaceInserted(k)
          /\ Cardinality(SpacesIn(text.content)) = 1
          /\ AddedBoxes(k)[1] = GapBox(LastBox(k), GetInstrBbox(tpage[k]), FALSE)

\* the boxes of the characters of the k-th instruction, a run, in the order
\* of its characters
BoxesOf(k) == After(AddedBoxes(k), Len(AddedBoxes(k)) - StrLen(tpage[k]))
\* the same from left to right on the page
VisualBoxes(k) ==
    IF tpage[k].type = "RtlString"
    THEN [i \in 1..StrLen(tpage[k]) |-> BoxesOf(k)[StrLen(tpage[k]) + 1 - i]]
    ELSE BoxesOf(k)
\* boxes side by side from x to the right edge of the run, none overlapping
\* and no space left between them
Partitions(bs, bbox) ==
    /\ bs[1].x = bbox.x
    /\ \A i \in 1..(Len(bs) - 1) : BRx(bs[i]) = bs[i + 1].x
    /\ BRx(bs[Len(bs)]) = BRx(bbox)
NonEmptyRuns == {k \in AllRuns : StrLen(tpage[k]) >= 1}

(***************************************************************************)
(* C18 as stated.  The boxes of the n >= 1 characters of a run partition   *)
(* the span of the run, whatever its width; in a right-to-left run the     *)
(* first character has the rightmost box and the positions decrease with   *)
(* the index.                                                              *)
(***************************************************************************)
C18_BoxesPartitionRun ==
    text.called =>
        \A k \in NonEmptyRuns :
            /\ Partitions(VisualBoxes(k), GetInstrBbox(tpage[k]))
            /\ tpage[k].type = "RtlString" =>
                  \A i \in 1..(StrLen(tpage[k]) - 1) : BoxesOf(k)[i + 1].x < BoxesOf(k)[i].x

(***************************************************************************)
(* C18 as amended.  The boxes of the n >= 1 characters of a run of width W *)
(* are as high as the run and W \div n wide each; from left to right they  *)
(* start at the left edge of the run, do not overlap, leave less than one  *)
(* unit between neighbours and end at or before the right edge of the run; *)
(* they partition the span of the run exactly when n divides W.  In a      *)
(* right-to-left run the first character has the rightmost box and the     *)
(* positions do not increase with the index; they decrease when W >= n.    *)
(***************************************************************************)
C18_BoxesDivideRun ==
    text.called =>
        \A k \in NonEmptyRuns :
            LET bbox == GetInstrBbox(tpage[k])
                n == StrLen(tpage[k])
                bs == VisualBoxes(k)
            IN  /\ InResult(k)
                /\ Len(bs) = n
                /\ \A i \in 1..n : /\ bs[i].dx = bbox.dx \div n
                                   /\ bs[i].y = bbox.y
                                   /\ bs[i].dy = bbox.dy
                /\ bs[1].x = bbox.x
                /\ \A i \in 1..(n - 1) : /\ BRx(bs[i]) <= bs[i + 1].x
                                         /\ bs[i + 1].x - BRx(bs[i]) <= 1
                /\ BRx(bs[n]) <= BRx(bbox)
                /\ Partitions(bs, bbox) <=> bbox.dx % n = 0
                /\ tpage[k].type = "RtlString" =>
                      /\ \A i \in 1..n : BoxesOf(k)[i].x <= BoxesOf(k)[1].x
                      /\ \A i \in 1..(n - 1) :
                            /\ BoxesOf(k)[i + 1].x <= BoxesOf(k)[i].x
                            /\ bbox.dx >= n => BoxesOf(k)[i + 1].x < BoxesOf(k)[i].x

\* a right-to-left run of three characters and a width three does not
\* divide: the first character has the rightmost box, and the boxes do not
\* reach the right edge of the run
C18_Witness ==
    /\ text.called
    /\ \E k \in NonEmptyRuns :
          /\ tpage[k].type = "RtlString"
          /\ StrLen(tpage[k]) = 3
          /\ GetInstrBbox(tpage[k]).dx % 3 # 0
          /\ BoxesOf(k)[1].x > BoxesOf(k)[3].x
          /\ BRx(BoxesOf(k)[1]) < BRx(GetInstrBbox(tpage[k]))
          /\ ~Partitions(VisualBoxes(k), GetInstrBbox(tpage[k]))

\* the page_marker anchors on page p or earlier
MarkersUpTo(p) == {q \in MarkerPtrs : q[1] <= p}
\* those of them that are among the first two instructions of their page
LeadingMarkersUpTo(p) == {q \in MarkersUpTo(p) : q[2] <= 2}
LastOrNull(S) ==
    IF S = {} THEN NullInstr ELSE CHOOSE q \in S : \A r \in S : r = q \/ Before(r, q)
\* the PageAnchor list has one entry for each Anchor instruction, with the
\* page of the instruction, in the order of the pages and the instructions
AnchorsListed ==
    /\ Len(anchors) = Cardinality(AnchorPtrs)
    /\ \A j \in 1..Len(anchors) :
          /\ anchors[j].instr \in AnchorPtrs
          /\ anchors[j].pageNo = anchors[j].instr[1]
    /\ \A j \in 1..Len(anchors), h \in 1..Len(anchors) :
          j < h => Before(anchors[j].instr, anchors[h].instr)

(***************************************************************************)
(* C19 as stated.  After ExtractPageAnchors the BaseAnchor table has one   *)
(* entry per page, the last page_marker anchor on that page or an earlier  *)
(* one wherever it is in its page, null if there is none; the PageAnchor   *)
(* list has one entry per Anchor instruction, in order.                    *)
(***************************************************************************)
C19_BaseAnchorAnywhere ==
    Formatted =>
        /\ Len(baseAnchors) = Len(pages)
        /\ \A p \in 1..Len(pages) : baseAnchors[p] = LastOrNull(MarkersUpTo(p))
        /\ AnchorsListed

(***************************************************************************)
(* C19 as amended.  The same, with the entry of page p the last            *)
(* page_marker anchor among the first two instructions of page p or of an  *)
(* earlier page.                                                           *)
(***************************************************************************)
C19_BaseAnchorLeadsPage ==
    Formatted =>
        /\ Len(baseAnchors) = Len(pages)
        /\ \A p \in 1..Len(pages) : baseAnchors[p] = LastOrNull(LeadingMarkersUpTo(p))
        /\ AnchorsListed

\* a page that begins with a page_marker anchor and has another as its
\* third instruction: the entry of the page is the first of the two
C19_Witness ==
    /\ phase = "loaded"
    /\ \E p \in 1..Len(pages) :
          /\ <<p, 1>> \in MarkerPtrs
          /\ <<p, 3>> \in MarkerPtrs
          /\ baseAnchors[p] = <<p, 1>>
          /\ Len(anchors) = 3

(***************************************************************************)
(* Vocabulary of the properties of MobiEngineImpl::GetNamedDest.           *)
(***************************************************************************)
MobiLookedUp == created = "engine" /\ engine = "mobi" /\ query # NoQuery
\* the name is a decimal number: digits and nothing else
IsDecimal(name) == name # <<>> /\ \A k \in 1..Len(name) : DigitOf(name[k]) >= 0
\* the name has no digit at all, or is a negative number
NoPosition(name) ==
    \/ \A k \in 1..Len(name) : DigitOf(name[k]) < 0
    \/ (name[1] = "-" /\ IsDecimal(Tail(name)))
NonDecreasing == \A p \in 1..Len(reparse), q \in 1..Len(reparse) : p <= q => reparse[p] <= reparse[q]
\* the pages after page P begin after f
EndsAfter(P, f) == P < Len(pages) => f < ReparseIdx(P + 1)

(***************************************************************************)
(* C20 as stated.  For a decimal position f from 0 to the length of the    *)
(* source the destination is a ScrollTo on the page P that contains f:     *)
(* P begins at or before f and the next page, if any, begins after f.  A   *)
(* negative number, a name without a digit and a position beyond the end   *)
(* are not found.                                                          *)
(***************************************************************************)
C20_PageContainsPosition ==
    (MobiLookedUp /\ NonDecreasing) =>
        LET f == Digits(query, 0) IN
        /\ (IsDecimal(query) /\ f <= HtmlLen) =>
              /\ dest.kind = "ScrollTo"
              /\ dest.pageNo \in 1..Len(pages)
              /\ ReparseIdx(dest.pageNo) <= f
              /\ EndsAfter(dest.pageNo, f)
        /\ (NoPosition(query) \/ (IsDecimal(query) /\ f > HtmlLen)) => dest = NotFound

(***************************************************************************)
(* C20 as amended.  The same, with P beginning at or before f unless P is  *)
(* the first page: a position before the beginning of the first page is    *)
(* found on the first page.                                                *)
(***************************************************************************)
C20_PageAtPosition ==
    (MobiLookedUp /\ NonDecreasing) =>
        LET f == Digits(query, 0) IN
        /\ (IsDecimal(query) /\ f <= HtmlLen) =>
              /\ dest.kind = "ScrollTo"
              /\ dest.pageNo \in 1..Len(pages)
              /\ dest.pageNo > 1 => ReparseIdx(dest.pageNo) <= f
              /\ EndsAfter(dest.pageNo, f)
        /\ (NoPosition(query) \/ (IsDecimal(query) /\ f > HtmlLen)) => dest = NotFound

\* a document of two pages and more whose first page begins after the
\* position looked up, and a position found on the second page
C20_Witness ==
    /\ MobiLookedUp
    /\ IsDecimal(query)
    /\ Len(pages) >= 2
    /\ ReparseIdx(1) > 0
    /\ dest.kind = "ScrollTo"
    /\ dest.pageNo = 2
    /\ ReparseIdx(2) <= Digits(query, 0)

(***************************************************************************)
(* Vocabulary of the properties of ChmFormatter::HandleTagPagebreak.       *)
(***************************************************************************)
\* the formatter is at a <pagebreak> token, and the step handles it
AtPagebreak == phase = "format" /\ pos <= Len(html) /\ html[pos].tag = "pagebreak"
PagebreakStep == AtPagebreak /\ pos' = pos + 1
HasPagePath == html[pos].val # NullStr
\* the step seals the current page and begins an empty one
SealsPage == pages' = Append(pages, currPage)
\* the page that is current after the step ends with the anchor of the path,
\* and the path is the base of the images that follow
RecordsPath ==
    /\ currPage' # <<>>
    /\ currPage'[Len(currPage')].type = "Anchor"
    /\ currPage'[Len(currPage')].str = html[pos].val
    /\ pagePath' = html[pos].val

(***************************************************************************)
(* C21 as stated.  Every <pagebreak> seals the current page and begins a   *)
(* new one, the first of the stream too; with a page_path the new page     *)
(* gets an Anchor with the path and the path becomes the base path.        *)
(***************************************************************************)
C21_EveryPagebreakSeals ==
    [][PagebreakStep =>
          /\ SealsPage
          /\ HasPagePath => (currPage' = <<currPage'[1]>> /\ RecordsPath)]_vars

(***************************************************************************)
(* C21 as amended.  A <pagebreak> seals the current page and begins a new  *)
(* one when it has no page_path or when a page_path was seen before; the   *)
(* first <pagebreak> with a page_path leaves the current page open.  With  *)
(* a page_path, the page that is current after the step gets an Anchor     *)
(* with the path as its last instruction (its only one after a seal) and   *)
(* the path becomes the base path; without one the base path stays.        *)
(***************************************************************************)
C21_PagebreakSealsAfterFirstPath ==
    [][PagebreakStep =>
          /\ SealsPage <=> (~HasPagePath \/ pagePath # NullStr)
          /\ ~SealsPage => pages' = pages
          /\ HasPagePath =>
                /\ RecordsPath
                /\ currPage' = (IF SealsPage THEN <<>> ELSE currPage)
                                   \o <<currPage'[Len(currPage')]>>
          /\ ~HasPagePath => (currPage' = <<>> /\ pagePath' = pagePath)]_vars

\* after the <pagebreak> of the second sub-document: the page of the first,
\* not full, is sealed, the new page has the anchor only, and the base path
\* is that of the second
C21_Witness ==
    /\ phase = "format"
    /\ pos > 2
    /\ html[pos - 1].tag = "pagebreak"
    /\ html[pos - 1].val # NullStr
    /\ html[1].tag = "pagebreak"
    /\ html[1].val # html[pos - 1].val
    /\ Len(pages) = 1
    /\ Len(pages[1]) = 2
    /\ pages[1][1].type = "Anchor"
    /\ pages[1][1].str = html[1].val
    /\ Len(currPage) = 1
    /\ currPage[1].type = "Anchor"
    /\ pagePath = html[pos - 1].val

(***************************************************************************)
(* Vocabulary of the properties of the annotation list.                    *)
(***************************************************************************)
\* thread t is in RenderBitmap between DrawHtmlPage and the return
DrawsAnnotations(t) == pc[t] \in {"r_draw", "r_annots", "r_check"}
\* thread t is in the assignment of UpdateUserAnnotations
ReplacesAnnotations(t) == pc[t] = "u_body"
\* the lists UpdateUserAnnotations was or can be given, and the list of an
\* engine no update was made on
WholeLists == AnnotLists \cup {<<>>}
PageAnnots(l, pageNo) == SelectSeq(l, LAMBDA a : a.pageNo = pageNo)

(***************************************************************************)
(* C22.  No thread replaces the annotation list while another is between   *)
(* the drawing of the page and the end of RenderBitmap; the list a render  *)
(* is about to draw is a whole list, one that an update was given, and the *)
(* annotations it has drawn are those of its page in a whole list.         *)
(***************************************************************************)
C22_AnnotationsExclusive ==
    \A t \in Threads :
        /\ DrawsAnnotations(t) =>
              /\ \A u \in Threads : ~ReplacesAnnotations(u)
              /\ userAnnots \in WholeLists
        /\ pc[t] = "r_check" =>
              /\ frame[t].annots = PageAnnots(userAnnots, frame[t].arg)
              /\ \E l \in WholeLists : frame[t].annots = PageAnnots(l, frame[t].arg)

\* a render waits for the critical section while an update has replaced
\* the first of two annotations
C22_Witness ==
    /\ pc["render"] = "r_lock"
    /\ pc["ui"] = "u_body"
    /\ lock = "ui"
    /\ Len(frame["ui"].arg) = 2
    /\ frame["ui"].copied = 1
    /\ userAnnots \notin WholeLists

(***************************************************************************)
(* Vocabulary of the page ranges: the items of a range list as its commas  *)
(* divide it, and the three forms of an item, read off the characters.     *)
(***************************************************************************)
RangeParsed == rangeCall.pc \in {"parsed", "validated"}

IsNumber(s) == s # <<>> /\ \A i \in 1..Len(s) : DigitOf(s[i]) >= 0

AllItems(input) == IF input = NullStr THEN <<>> ELSE Split(input, ",", FALSE)

IsNonEmptyItem(item) == item # <<>>

NonEmptyItems(input) == SelectSeq(AllItems(input), IsNonEmptyItem)

\* the dash of a closed interval a-b
ClosedAt(item, k) ==
    /\ item[k] = "-"
    /\ IsNumber(SubSeq(item, 1, k - 1))
    /\ IsNumber(SubSeq(item, k + 1, Len(item)))

IsSinglePage(item) == IsNumber(item) /\ Digits(item, 0) > 0

IsClosedInterval(item) ==
    \E k \in 1..Len(item) :
        /\ ClosedAt(item, k)
        /\ Digits(item, 0) > 0
        /\ Digits(item, 0) <= Digits(SubSeq(item, k + 1, Len(item)), 0)

IsOpenInterval(item) ==
    /\ Len(item) >= 2
    /\ item[Len(item)] = "-"
    /\ IsNumber(SubSeq(item, 1, Len(item) - 1))
    /\ Digits(item, 0) > 0

IsRangeItem(item) == IsSinglePage(item) \/ IsClosedInterval(item) \/ IsOpenInterval(item)

\* the range an item of one of the three forms stands for
RangeOf(item) ==
    IF IsSinglePage(item) THEN PageRange(Digits(item, 0), Digits(item, 0))
    ELSE IF IsOpenInterval(item) THEN PageRange(Digits(item, 0), INT_MAX)
    ELSE LET k == CHOOSE k \in 1..Len(item) : item[k] = "-" IN
         PageRange(Digits(item, 0), Digits(SubSeq(item, k + 1, Len(item)), 0))

\* result holds one range per item: as many of each range as items stand
\* for it
OnePerItem(result, items) ==
    /\ Len(result) = Len(items)
    /\ \A i \in 1..Len(items) :
          Cardinality({j \in 1..Len(result) : result[j] = RangeOf(items[i])})
              = Cardinality({j \in 1..Len(items) : RangeOf(items[j]) = RangeOf(items[i])})

IsHtmlFile(path) ==
    EndsWithI(path, <<".", "h", "t", "m">>) \/ EndsWithI(path, <<".", "h", "t", "m", "l">>)

WithoutSlash(path) == IF path # <<>> /\ path[1] = "/" THEN Tail(path) ELSE path

\* the home page, then the table of contents, then the .htm/.html files
Candidates ==
    <<collector.home>> \o collector.toc
        \o [k \in 1..Len(SelectSeq(collector.paths, IsHtmlFile)) |->
               WithoutSlash(SelectSeq(collector.paths, IsHtmlFile)[k])]

SamePath(p, q) == Len(p) = Len(q) /\ EqNI(p, q, Len(p))

\* a url that names a sub-document with data
Includable(url) ==
    url # NullStr /\ ~IsAbsolute(url) /\ ToUtf8(GetFullPath(url)) \in objects

FirstOfItsPath(k) ==
    /\ Includable(Candidates[k])
    /\ \A j \in 1..(k - 1) :
          Includable(Candidates[j])
              => ~SamePath(GetFullPath(Candidates[j]), GetFullPath(Candidates[k]))

CandidateIndex == [k \in 1..Len(Candidates) |-> k]

InOrder ==
    [n \in 1..Len(SelectSeq(CandidateIndex, FirstOfItsPath)) |->
        GetFullPath(Candidates[SelectSeq(CandidateIndex, FirstOfItsPath)[n]])]

\* the sub-documents of a list, each behind the pagebreak of its path
RECURSIVE MergedHtml(_)
MergedHtml(list) ==
    IF list = <<>> THEN <<>>
    ELSE <<PagebreakTok(ToUtf8(list[1]))>> \o DataOf(ToUtf8(list[1])) \o MergedHtml(Tail(list))

\* C24: the merged HTML holds each sub-document at most once, paths compared
\* without fragment and ignoring case; every included sub-document directly
\* follows a <pagebreak page_path page_marker> token of its own path; when
\* GetHtml returns the sub-documents are the home page, then those of the
\* table of contents in its order, then the remaining .htm/.html files;
\* absolute urls and paths without data add nothing, no marker either.
C24_MergedOnceInOrder ==
    /\ \A i \in 1..Len(added), j \in 1..Len(added) :
          i # j => ~SamePath(added[i], added[j])
    /\ html = MergedHtml(added)
    /\ \A i \in 1..Len(added) : Includable(added[i])
    /\ collector.stage = "done" => added = InOrder

\* GetHtml returned three sub-documents: the home page, one of the table of
\* contents behind an absolute url, and a remaining file behind a file that
\* repeated the one of the table of contents in other case
C24_Witness ==
    /\ collector.stage = "done"
    /\ added = <<HtmlB, HtmA, HtmD>>
    /\ collector.home = HtmlB
    /\ collector.toc = <<<<"h", ":", "a">>, HtmA \o <<"#", "x">>>>
    /\ collector.paths = <<<<"/">> \o HtmUpperA, <<"/">> \o HtmD>>

(***************************************************************************)
(* Vocabulary of GotoNamedDest: the steps a call took, in the order it     *)
(* took them, and the items of the ToC tree.                               *)
(***************************************************************************)
StepRank(step) ==
    CASE step = "named" -> 1 [] step = "full" -> 2 [] step = "part" -> 3 [] step = "label" -> 4

RECURSIVE TocItemsOf(_)
TocItemsOf(items) ==
    IF items = <<>> THEN {}
    ELSE {items[1]} \cup TocItemsOf(items[1].child) \cup TocItemsOf(Tail(items))

\* name begins a word of title
BeginsWord(title, name) ==
    \E at \in 1..(Len(title) + 1) :
        /\ at + Len(name) - 1 <= Len(title)
        /\ \A k \in 1..Len(name) : title[at + k - 1] = name[k]
        /\ at = 1 \/ title[at - 1] = " "

\* what the step that found the destination rests on
Justified ==
    LET name == gotoCall.name
        fuzName == NormalizeFuzzy(name)
        items == TocItemsOf(gotoCall.toc)
    IN  /\ gotoCall.found = "named" => name = gotoCall.named.name
        /\ gotoCall.found = "full" =>
              \E it \in items : it.link.found /\ NormalizeFuzzy(it.title) = fuzName
        /\ gotoCall.found = "part" =>
              \E it \in items : it.link.found /\ BeginsWord(NormalizeFuzzy(it.title), fuzName)
        /\ gotoCall.found = "label" =>
              \E i \in 1..Len(gotoCall.labels) :
                  /\ gotoCall.labels[i].label = name
                  /\ gotoCall.labels[i].pageNo \in 1..GotoPageCount

\* C25: GotoNamedDest tries the exact named destination, then the full ToC
\* titles, then the starts of the words of the ToC titles, then the page
\* labels, in this order; once a step found a destination no later step is
\* taken; a call scrolls or jumps at most once.
C25_FixedOrderFirstHitWins ==
    LET steps == gotoCall.steps IN
    /\ steps # <<>> => steps[1] = "named"
    /\ \A i \in 1..Len(steps), j \in 1..Len(steps) :
          i < j => StepRank(steps[i]) < StepRank(steps[j])
    /\ \A j \in 1..Len(steps) : steps[j] = "part" => j > 1 /\ steps[j - 1] = "full"
    /\ gotoCall.found # "none" => steps # <<>> /\ steps[Len(steps)] = gotoCall.found
    /\ gotoCall.moves <= 1
    /\ gotoCall.moves = 1 => gotoCall.found # "none"
    /\ Justified

\* b begins a word of a title and is a page label too: the call scrolled to
\* the ToC item and returned without trying the labels
C25_Witness ==
    /\ gotoCall.pc = "done"
    /\ gotoCall.steps = <<"named", "full", "part">>
    /\ gotoCall.found = "part"
    /\ gotoCall.moves = 1
    /\ gotoCall.hasLabels
    /\ GetPageByLabel(gotoCall.labels, gotoCall.name) = GotoPageCount

(***************************************************************************)
(* Vocabulary of the saves of a list that grows, shrinks and changes.      *)
(***************************************************************************)
\* the list handed to the last save
SavedItems == saved.list.items

\* the last save returned true
SaveSucceeded == saved.called /\ saved.ret

\* the annotations LoadFileModifications returns now
LoadedItems == ParseFileModifications(smx).items

\* the list extends the annotations the file held: they are its first
\* elements
ExtendsFile == ~PrevParses \/ IsPrefix(PrevItems, SavedItems)

\* an annotation that is read back as it was written
ReadsBackSame(annot) ==
    /\ SectionOf(annot.type) # ""
    /\ ParseAnnot(AnnotBlock(annot)) = annot

\* C26, as claimed: SaveFileModifictions reads no element of the new list at
\* an index at or beyond its size, also when the list is shorter than, or a
\* strict prefix of, the list saved in the file.
C26_NoReadBeyondList ==
    saved.called => \A k \in saved.reads : k < Len(SavedItems)

\* C27, as claimed: after successful saves of a list that may grow, shrink
\* or change between the calls, LoadFileModifications returns exactly the
\* list passed to the last save; stated for the lists whose annotations are
\* read back as they are written.
C27_LoadReturnsLastSaved ==
    (SaveSucceeded /\ \A i \in 1..Len(SavedItems) : ReadsBackSame(SavedItems[i]))
        => LoadedItems = SavedItems

\* C27, amended: after a successful save of a list that extends the
\* annotations the file held, and whose annotations are read back as they
\* are written, LoadFileModifications returns the annotations of that list,
\* in order.
C27_LoadReturnsExtendedList ==
    (SaveSucceeded /\ ExtendsFile /\ \A i \in 1..Len(SavedItems) : ReadsBackSame(SavedItems[i]))
        => LoadedItems = SavedItems

\* the second save of a list that grew: the file held its first annotation,
\* the second was appended behind an [@update] block
C27_Witness ==
    /\ SaveSucceeded
    /\ saved.wrote
    /\ PrevParses
    /\ Len(PrevItems) = 1
    /\ Len(SavedItems) = 2
    /\ IsPrefix(PrevItems, SavedItems)
    /\ \A i \in 1..2 : ReadsBackSame(SavedItems[i])
    /\ LoadedItems = SavedItems

(***************************************************************************)
(* Vocabulary of the ToC tree: its traversal and the pointers to an item.  *)
(***************************************************************************)
\* the item, then its children, then its next sibling; fuel bounds the walk
RECURSIVE PreOrder(_, _, _)
PreOrder(items, r, fuel) ==
    IF r = 0 \/ fuel = 0 THEN <<>>
    ELSE LET below == PreOrder(items, items[r].child, fuel - 1) IN
         <<r>> \o below \o PreOrder(items, items[r].next, fuel - 1 - Len(below))

\* the pointers that lead to item i: root, a next or a child
PointersTo(i) ==
    {<<0, "root">> : r \in {tocBuilder.root} \cap {i}}
    \cup {<<j, "next">> : j \in {k \in 1..Len(tocBuilder.items) : tocBuilder.items[k].next = i}}
    \cup {<<j, "child">> : j \in {k \in 1..Len(tocBuilder.items) : tocBuilder.items[k].child = i}}

\* C28: after any sequence of Visit calls, with any levels, the pre-order
\* traversal of the ToC tree lists the items in the order they were visited,
\* every item is attached exactly once, and the ids are 1, 2, 3, ... in that
\* order.
C28_PreOrderIsVisitOrder ==
    LET items == tocBuilder.items
        n == Len(tocBuilder.items)
    IN  /\ n = Len(tocBuilder.visited)
        /\ PreOrder(items, tocBuilder.root, n + 1) = [i \in 1..n |-> i]
        /\ \A i \in 1..n :
              /\ items[i].id = i
              /\ items[i].name = tocBuilder.visited[i]
              /\ Cardinality(PointersTo(i)) = 1

\* four visits built a tree with a child, a grandchild reached by a level
\* far below the tree, and a second item at the top
C28_Witness ==
    /\ Len(tocBuilder.items) = 4
    /\ tocBuilder.root = 1
    /\ tocBuilder.items[1].child = 2
    /\ tocBuilder.items[2].child = 3
    /\ tocBuilder.items[1].next = 4
    /\ tocBuilder.items[4].pageNo = 0

\* C29: for every path HasData(path) is true exactly when GetData(path)
\* returns data, paths with backslashes and objects of any size included;
\* hence a link CreatePageLink accepts as an embedded destination can always
\* be saved, and a resource that can be read is never rejected as missing.
C29_HasDataIffGetData ==
    /\ chmFile.pc \in {"got", "saved"} => (chmFile.has <=> chmFile.got.ok)
    /\ chmFile.pc = "nolink" => ~GetData(chmFile.path, chmFile.infos).ok

\* HasData was true and GetData returned an object of exactly 128 MB, for
\* a name with three leading slashes
C29_Witness ==
    /\ chmFile.pc = "got"
    /\ chmFile.path = <<"/", "/", "/", "a">>
    /\ chmFile.has
    /\ chmFile.got = [ok |-> TRUE, len |-> MaxDataLen]

(***************************************************************************)
(* Vocabulary of the installer's properties.                               *)
(***************************************************************************)
\* the success flag is set only on top of the three steps, and once they
\* are done it stays set whatever the registry did
SuccessFollowsSteps ==
    /\ installer.success => {"directory", "files", "shortcut"} \subseteq installer.done
    /\ installer.pc \in {"registry", "Error", "ended"} /\ "shortcut" \in installer.done
          => installer.success

\* the run has a window to tell and may tell it
HasFrameAndIsNotSilent == installer.hwndFrame /\ ~installer.silent

\* the run was only to extract the files and has extracted them
OnlyExtractedFiles ==
    installer.justExtractFiles /\ {"directory", "files"} \subseteq installer.done

\* C30 as stated: success only after directory, files and shortcut have
\* succeeded and kept over registry failures, and every run with a frame
\* window that is not silent, also one that only extracts files, has posted
\* the installation-finished message exactly once when the thread ends.
C30_EveryRunPostsOnce ==
    /\ SuccessFollowsSteps
    /\ installer.posted <= 1
    /\ installer.pc # "ended" => installer.posted = 0
    /\ installer.pc = "ended" /\ HasFrameAndIsNotSilent => installer.posted = 1

\* C30: success only after directory, files and shortcut have succeeded and
\* kept over registry failures; every run with a frame window that is not
\* silent has posted the message exactly once when the thread ends, whether
\* it succeeded or failed at any step, except the run that only extracts
\* files: it ends after the extraction without posting and without success.
C30_EveryRunButExtractionPostsOnce ==
    /\ SuccessFollowsSteps
    /\ installer.posted <= 1
    /\ installer.pc # "ended" => installer.posted = 0
    /\ installer.pc = "ended" /\ HasFrameAndIsNotSilent /\ ~OnlyExtractedFiles
          => installer.posted = 1
    /\ installer.pc = "ended" /\ OnlyExtractedFiles
          => installer.posted = 0 /\ ~installer.success

\* a run with a window ended in success although two registry steps failed,
\* and its one message was handled
C30_Witness ==
    /\ installer.pc = "ended"
    /\ HasFrameAndIsNotSilent
    /\ installer.success
    /\ installer.failed = 2
    /\ installer.posted = 1
    /\ installer.handled = 1
    /\ installer.msg = "installed"

====
